---- MODULE Spec2Model ----
(***************************************************************************)
(* A model of typemold's mapper compilation and caching engine:            *)
(* the decorators that declare field mappings, the MappingRegistry with    *)
(* its entry cache and compiled-mapper cache, MapperFactory.createMapper   *)
(* and the Mapper facade.                                                  *)
(*                                                                         *)
(* A JavaScript string is a sequence of one-character strings, so that     *)
(* sort(), join(","), split(".") and the template literals of the cache    *)
(* key are computed, not assumed.                                          *)
(***************************************************************************)
EXTENDS Integers, Sequences, FiniteSets, TLC

(***************************************************************************)
(* JavaScript strings                                                      *)
(***************************************************************************)

\* The UTF-16 code unit of each character the model uses.
CodeUnit(c) ==
  CASE c = "," -> 44
    [] c = "." -> 46
    [] c = ":" -> 58
    [] c = "_" -> 95
    [] c = "a" -> 97
    [] c = "b" -> 98
    [] c = "c" -> 99
    [] c = "d" -> 100
    [] c = "e" -> 101
    [] c = "f" -> 102
    [] c = "g" -> 103
    [] c = "h" -> 104
    [] c = "i" -> 105
    [] c = "k" -> 107
    [] c = "l" -> 108
    [] c = "m" -> 109
    [] c = "n" -> 110
    [] c = "o" -> 111
    [] c = "p" -> 112
    [] c = "r" -> 114
    [] c = "s" -> 115
    [] c = "t" -> 116
    [] c = "u" -> 117
    [] c = "y" -> 121
    [] OTHER -> 0

\* a < b in the order of Array.prototype.sort() without a comparator:
\* by UTF-16 code units, a proper prefix first.
RECURSIVE StrLess(_, _)
StrLess(a, b) ==
  IF b = <<>> THEN FALSE
  ELSE IF a = <<>> THEN TRUE
  ELSE IF CodeUnit(Head(a)) # CodeUnit(Head(b))
       THEN CodeUnit(Head(a)) < CodeUnit(Head(b))
  ELSE StrLess(Tail(a), Tail(b))

\* s with x inserted before the first element greater than x (stable).
RECURSIVE InsertSorted(_, _)
InsertSorted(x, s) ==
  IF s = <<>> THEN <<x>>
  ELSE IF StrLess(x, Head(s)) THEN <<x>> \o s
  ELSE <<Head(s)>> \o InsertSorted(x, Tail(s))

\* Array.prototype.sort() on an array of strings.
RECURSIVE ArraySort(_)
ArraySort(arr) ==
  IF arr = <<>> THEN <<>>
  ELSE InsertSorted(arr[Len(arr)], ArraySort(SubSeq(arr, 1, Len(arr) - 1)))

\* Array.prototype.join(sep) on an array of strings.
RECURSIVE ArrayJoin(_, _)
ArrayJoin(arr, sep) ==
  IF arr = <<>> THEN <<>>
  ELSE IF Len(arr) = 1 THEN arr[1]
  ELSE arr[1] \o sep \o ArrayJoin(Tail(arr), sep)

\* String.prototype.includes(ch) for a one-character ch.
StrIncludes(s, ch) == \E i \in 1..Len(s) : s[i] = ch

\* String.prototype.split(ch) for a one-character ch.
RECURSIVE StrSplit(_, _)
StrSplit(s, ch) ==
  IF ~StrIncludes(s, ch) THEN <<s>>
  ELSE LET i == CHOOSE j \in 1..Len(s) :
                  s[j] = ch /\ \A k \in 1..(j - 1) : s[k] # ch
       IN <<SubSeq(s, 1, i - 1)>> \o StrSplit(SubSeq(s, i + 1, Len(s)), ch)

\* The elements of an array, as a set (new Set(arr)).
SetOf(arr) == {arr[i] : i \in 1..Len(arr)}

(***************************************************************************)
(* JavaScript values                                                       *)
(***************************************************************************)

Undefined == [t |-> "undefined"]
Null == [t |-> "null"]
Bool(b) == [t |-> "boolean", v |-> b]
Num(n) == [t |-> "number", v |-> n]
Str(s) == [t |-> "string", v |-> s]
Obj(props) == [t |-> "object", props |-> props]
Fn(name) == [t |-> "function", name |-> name]
Arr(items) == [t |-> "array", items |-> items]

\* An object literal with no own property.
EmptyProps == [k \in {} |-> Undefined]

\* v == null (null or undefined).
IsNullish(v) == v.t \in {"undefined", "null"}

\* typeof v === "object" for a v that is not nullish.
IsObjectType(v) == v.t = "object"

\* v[key] for a v that is not nullish: an own property (a string has
\* "length"), else what the prototype chain gives (Object for
\* "constructor", Object.prototype for "__proto__"), else undefined.
GetProp(v, key) ==
  IF v.t = "object" /\ key \in DOMAIN v.props THEN v.props[key]
  ELSE IF v.t = "string" /\ key = <<"l","e","n","g","t","h">>
       THEN Num(Len(v.v))
  ELSE IF key = <<"c","o","n","s","t","r","u","c","t","o","r">>
       THEN Fn("Object")
  ELSE IF key = <<"_","_","p","r","o","t","o","_","_">>
       THEN Obj(EmptyProps)
  ELSE Undefined

(***************************************************************************)
(* utils: getNestedValue                                                   *)
(***************************************************************************)

BLOCKED_KEYS == {<<"_","_","p","r","o","t","o","_","_">>,
                 <<"c","o","n","s","t","r","u","c","t","o","r">>,
                 <<"p","r","o","t","o","t","y","p","e">>}

\* The loop of getNestedValue over segments[i..], from the value current.
RECURSIVE WalkSegments(_, _, _)
WalkSegments(current, segments, i) ==
  IF i > Len(segments) THEN current
  ELSE IF segments[i] \in BLOCKED_KEYS THEN Undefined
  ELSE IF IsNullish(current) \/ ~IsObjectType(current) THEN Undefined
  ELSE WalkSegments(GetProp(current, segments[i]), segments, i + 1)

\* A getNestedValue that caches the segments without the last one.
PathCacheAfterTruncating(pc, obj, path) ==
  IF IsNullish(obj) \/ ~StrIncludes(path, ".") \/ path \in DOMAIN pc THEN pc
  ELSE [p \in DOMAIN pc \cup {path} |->
          IF p = path
          THEN SubSeq(StrSplit(path, "."), 1, Len(StrSplit(path, ".")) - 1)
          ELSE pc[p]]

\* pathCache after getNestedValue(obj, path) ran with the cache pc.
PathCacheAfter(pc, obj, path) ==
  IF IsNullish(obj) \/ ~StrIncludes(path, ".") \/ path \in DOMAIN pc THEN pc
  ELSE [p \in DOMAIN pc \cup {path} |->
          IF p = path THEN StrSplit(path, ".") ELSE pc[p]]

\* The property names getNestedValue(obj, path) reads, in order: one for
\* each obj[path] or current[segments[i]] it evaluates.
RECURSIVE WalkReads(_, _, _)
WalkReads(current, segments, i) ==
  IF i > Len(segments) THEN <<>>
  ELSE IF segments[i] \in BLOCKED_KEYS THEN <<>>
  ELSE IF IsNullish(current) \/ ~IsObjectType(current) THEN <<>>
  ELSE <<segments[i]>>
         \o WalkReads(GetProp(current, segments[i]), segments, i + 1)

NestedReads(pc, obj, path) ==
  IF IsNullish(obj) THEN <<>>
  ELSE IF ~StrIncludes(path, ".")
       THEN IF path \in BLOCKED_KEYS THEN <<>> ELSE <<path>>
  ELSE WalkReads(obj, IF path \in DOMAIN pc THEN pc[path]
                      ELSE StrSplit(path, "."), 1)

\* A getNestedValue without the BLOCKED_KEYS tests: every segment is read.
RECURSIVE WalkUnguarded(_, _, _)
WalkUnguarded(current, segments, i) ==
  IF i > Len(segments) THEN current
  ELSE IF IsNullish(current) \/ ~IsObjectType(current) THEN Undefined
  ELSE WalkUnguarded(GetProp(current, segments[i]), segments, i + 1)

getNestedValueUnguarded(pc, obj, path) ==
  IF IsNullish(obj) THEN Undefined
  ELSE IF ~StrIncludes(path, ".") THEN GetProp(obj, path)
  ELSE WalkUnguarded(obj, StrSplit(path, "."), 1)

\* The value getNestedValue(obj, path) returns with the cache pc.
getNestedValue(pc, obj, path) ==
  IF IsNullish(obj) THEN Undefined
  ELSE IF ~StrIncludes(path, ".")
       THEN IF path \in BLOCKED_KEYS THEN Undefined ELSE GetProp(obj, path)
  ELSE LET segments == IF path \in DOMAIN pc THEN pc[path]
                       ELSE StrSplit(path, ".")
       IN WalkSegments(obj, segments, 1)

(***************************************************************************)
(* decorators: the Reflect metadata of a target class                      *)
(*                                                                         *)
(* A metadata value is Absent (Reflect.getMetadata gives undefined) or     *)
(* Present(v).  The PROPERTY_MAPPINGS Map is the sequence of its configs   *)
(* in insertion order; the FIELD_GROUPS Map is a function from group name  *)
(* to the set of keys.                                                     *)
(***************************************************************************)

Absent == [def |-> FALSE]
Present(v) == [def |-> TRUE, val |-> v]

\* A class whose metadata cannot be read: Reflect.getMetadata(key, ctor)
\* raises error.
RaisingMetadata(error) == [raises |-> error]
MetadataRaises(md) == "raises" \in DOMAIN md

\* A class no decorator has run on.
NoMetadata == [propertyMappings |-> Absent, fieldGroups |-> Absent]

createDefaultConfig(targetKey) ==
  [targetKey |-> targetKey, source |-> Str(targetKey), isTransform |-> FALSE,
   groups |-> <<>>, ignore |-> FALSE]

\* Reflect.getMetadata(PROPERTY_MAPPINGS, ctor) || new Map()
ExistingMappings(md) ==
  IF md.propertyMappings.def THEN md.propertyMappings.val ELSE <<>>

\* Reflect.getMetadata(FIELD_GROUPS, ctor) || new Map()
ExistingGroups(md) ==
  IF md.fieldGroups.def THEN md.fieldGroups.val ELSE [g \in {} |-> {}]

\* Map.has(key) on a Map of configs.
MapHas(m, key) == \E i \in 1..Len(m) : m[i].targetKey = key

\* existingMappings.get(key) || createDefaultConfig(key)
ExistingConfig(m, key) ==
  IF MapHas(m, key)
  THEN m[CHOOSE i \in 1..Len(m) : m[i].targetKey = key]
  ELSE createDefaultConfig(key)

\* Map.set(key, config): in place when the key is there, else appended.
MapSet(m, key, config) ==
  IF MapHas(m, key)
  THEN [i \in 1..Len(m) |-> IF m[i].targetKey = key THEN config ELSE m[i]]
  ELSE Append(m, config)

\* [...new Set(arr)]: arr without its later duplicates.
RECURSIVE Dedupe(_)
Dedupe(arr) ==
  IF arr = <<>> THEN <<>>
  ELSE LET init == Dedupe(SubSeq(arr, 1, Len(arr) - 1))
           x == arr[Len(arr)]
       IN IF x \in SetOf(init) THEN init ELSE Append(init, x)

\* @MapFrom(sourcePathOrTransform) on property key; a transform is Fn(name).
MapFrom(md, key, sourcePathOrTransform) ==
  LET existingMappings == ExistingMappings(md)
      existingConfig == ExistingConfig(existingMappings, key)
      config == [existingConfig EXCEPT
                   !.source = sourcePathOrTransform,
                   !.isTransform = (sourcePathOrTransform.t = "function")]
  IN [md EXCEPT !.propertyMappings =
                   Present(MapSet(existingMappings, key, config))]

\* @AutoMap() on property key.
AutoMap(md, key) ==
  LET existingMappings == ExistingMappings(md)
      existingConfig == ExistingConfig(existingMappings, key)
      config == [existingConfig EXCEPT
                   !.source = Str(key), !.isTransform = FALSE]
  IN [md EXCEPT !.propertyMappings =
                   Present(MapSet(existingMappings, key, config))]

\* The loop of FieldGroup over groups[i..] on the FIELD_GROUPS Map fg.
RECURSIVE AddToGroups(_, _, _, _)
AddToGroups(fg, groups, key, i) ==
  IF i > Len(groups) THEN fg
  ELSE LET group == groups[i]
           groupSet == IF group \in DOMAIN fg THEN fg[group] ELSE {}
           next == [g \in DOMAIN fg \cup {group} |->
                      IF g = group THEN groupSet \cup {key} ELSE fg[g]]
       IN AddToGroups(next, groups, key, i + 1)

\* @FieldGroup(...groups) on property key.
FieldGroup(md, key, groups) ==
  LET existingMappings == ExistingMappings(md)
      existingConfig == ExistingConfig(existingMappings, key)
      config == [existingConfig EXCEPT
                   !.groups = Dedupe(existingConfig.groups \o groups)]
  IN [propertyMappings |-> Present(MapSet(existingMappings, key, config)),
      fieldGroups |-> Present(AddToGroups(ExistingGroups(md), groups, key, 1))]

\* @Ignore() on property key.
Ignore(md, key) ==
  LET existingMappings == ExistingMappings(md)
      existingConfig == ExistingConfig(existingMappings, key)
      config == [existingConfig EXCEPT !.ignore = TRUE]
  IN [md EXCEPT !.propertyMappings =
                   Present(MapSet(existingMappings, key, config))]

(***************************************************************************)
(* registry: MappingRegistryClass                                          *)
(*                                                                         *)
(* An entry holds the Maps of the metadata themselves, not copies: a       *)
(* field of an entry is "metadata" when it is the Map Reflect holds, and   *)
(* "fresh" when the metadata was undefined and the entry got a new Map()   *)
(* of its own, which nothing writes to.                                    *)
(***************************************************************************)

createEntryFromMetadata(md, targetType) ==
  [targetType |-> targetType,
   propertyConfigs |-> IF md.propertyMappings.def THEN "metadata" ELSE "fresh",
   fieldGroups |-> IF md.fieldGroups.def THEN "metadata" ELSE "fresh"]

\* entry.propertyConfigs, read now.
EntryPropertyConfigs(md, entry) ==
  IF entry.propertyConfigs = "metadata" THEN md.propertyMappings.val ELSE <<>>

\* entry.fieldGroups, read now.
EntryFieldGroups(md, entry) ==
  IF entry.fieldGroups = "metadata" THEN md.fieldGroups.val
  ELSE [g \in {} |-> {}]

\* A getEntry that returns the entry without storing it in this.registry.
RegistryAfterGetEntryUnstored(reg, md, targetType) == reg

\* this.registry after getEntry(targetType).
RegistryAfterGetEntry(reg, md, targetType) ==
  IF targetType \in DOMAIN reg THEN reg
  ELSE [t \in DOMAIN reg \cup {targetType} |->
          IF t = targetType THEN createEntryFromMetadata(md, targetType)
          ELSE reg[t]]

\* The entry getEntry(targetType) returns.
getEntry(reg, md, targetType) ==
  IF targetType \in DOMAIN reg THEN reg[targetType]
  ELSE createEntryFromMetadata(md, targetType)

\* How many times getEntry(targetType) calls createEntryFromMetadata.
GetEntryConsults(reg, targetType) ==
  IF targetType \in DOMAIN reg THEN 0 ELSE 1

\* A getCompiledMapper that never finds a mapper.
getCompiledMapperNone(cm, targetType, optionsKey) == Absent

\* A getCompiledMapper that ignores optionsKey: any mapper of targetType.
getCompiledMapperAnyKey(cm, targetType, optionsKey) ==
  IF targetType \in DOMAIN cm /\ DOMAIN cm[targetType] # {}
  THEN Present(cm[targetType][CHOOSE k \in DOMAIN cm[targetType] : TRUE])
  ELSE Absent

\* getCompiledMapper(targetType, optionsKey): Absent for undefined.
getCompiledMapper(cm, targetType, optionsKey) ==
  IF targetType \in DOMAIN cm /\ optionsKey \in DOMAIN cm[targetType]
  THEN Present(cm[targetType][optionsKey])
  ELSE Absent

\* A setCompiledMapper that starts a new Map for the class on every call.
setCompiledMapperAlone(cm, targetType, optionsKey, mapper) ==
  [t \in DOMAIN cm \cup {targetType} |->
     IF t = targetType THEN [k \in {optionsKey} |-> mapper] ELSE cm[t]]

\* this.compiledMappers after setCompiledMapper(targetType, optionsKey, mapper).
setCompiledMapper(cm, targetType, optionsKey, mapper) ==
  LET typeMappers == IF targetType \in DOMAIN cm THEN cm[targetType]
                     ELSE [k \in {} |-> mapper]
      stored == [k \in DOMAIN typeMappers \cup {optionsKey} |->
                   IF k = optionsKey THEN mapper ELSE typeMappers[k]]
  IN [t \in DOMAIN cm \cup {targetType} |->
        IF t = targetType THEN stored ELSE cm[t]]

\* this.registry after clearCache(): registry.clear().
RegistryAfterClear(reg) == [t \in {} |-> 0]

\* this.compiledMappers after clearCache(): the method does not touch it.
CompiledMappersAfterClear(cm) == cm

(***************************************************************************)
(* Mapping options                                                         *)
(*                                                                         *)
(* options is Absent (no argument) or Present of a record whose pick,      *)
(* omit, group and extras are each Absent or Present.                      *)
(***************************************************************************)

MapOptions(pick, omit, group, extras) ==
  Present([pick |-> pick, omit |-> omit, group |-> group, extras |-> extras])

\* if (options.group): a defined, non-empty string.
Truthy(group) == group.def /\ group.val # <<>>

\* getOptionsKey(options): the key it returns.
getOptionsKey(options) ==
  IF ~options.def THEN <<"d","e","f","a","u","l","t">>
  ELSE IF options.val.pick.def
       THEN <<"p","i","c","k",":">>
              \o ArrayJoin(ArraySort(options.val.pick.val), <<",">>)
  ELSE IF options.val.omit.def
       THEN <<"o","m","i","t",":">>
              \o ArrayJoin(ArraySort(options.val.omit.val), <<",">>)
  ELSE IF Truthy(options.val.group)
       THEN <<"g","r","o","u","p",":">> \o options.val.group.val
  ELSE <<"d","e","f","a","u","l","t">>

\* The caller's options object after getOptionsKey(options): sort() sorts
\* the array it is called on.
OptionsAfterKey(options) ==
  IF ~options.def THEN options
  ELSE IF options.val.pick.def
       THEN Present([options.val EXCEPT
                       !.pick = Present(ArraySort(options.val.pick.val))])
  ELSE IF options.val.omit.def
       THEN Present([options.val EXCEPT
                       !.omit = Present(ArraySort(options.val.omit.val))])
  ELSE options

(***************************************************************************)
(* registry: MapperFactory                                                 *)
(*                                                                         *)
(* Array.prototype.filter over an array of configs is SelectSeq.           *)
(***************************************************************************)

\* A filter that keeps the ignored configs and drops the others.
NotIgnoredInverted(config) == config.ignore

\* A filter that keeps the ignored configs too.
NotIgnoredKeepsAll(config) == TRUE

\* (config) => !config.ignore
NotIgnored(config) == ~config.ignore

\* A getPropertiesToMap that returns the properties last declared first.
RECURSIVE Reversed(_)
Reversed(xs) ==
  IF xs = <<>> THEN <<>> ELSE Append(Reversed(Tail(xs)), Head(xs))

getPropertiesToMapReversed(propertyConfigs, fieldGroups, options) ==
  LET allConfigs == SelectSeq(propertyConfigs, NotIgnored)
  IN IF ~options.def THEN Reversed(allConfigs)
     ELSE IF Truthy(options.val.group)
          THEN IF options.val.group.val \in DOMAIN fieldGroups
               THEN LET groupFields == fieldGroups[options.val.group.val]
                        InGroup(config) == config.targetKey \in groupFields
                    IN Reversed(SelectSeq(allConfigs, InGroup))
               ELSE <<>>
     ELSE IF options.val.pick.def /\ Len(options.val.pick.val) > 0
          THEN LET pickSet == SetOf(options.val.pick.val)
                   Picked(config) == config.targetKey \in pickSet
               IN Reversed(SelectSeq(allConfigs, Picked))
     ELSE IF options.val.omit.def /\ Len(options.val.omit.val) > 0
          THEN LET omitSet == SetOf(options.val.omit.val)
                   Kept(config) == config.targetKey \notin omitSet
               IN Reversed(SelectSeq(allConfigs, Kept))
     ELSE Reversed(allConfigs)

\* getPropertiesToMap(entry, options), on the entry's two Maps.
getPropertiesToMap(propertyConfigs, fieldGroups, options) ==
  LET allConfigs == SelectSeq(propertyConfigs, NotIgnored)
  IN IF ~options.def THEN allConfigs
     ELSE IF Truthy(options.val.group)
          THEN IF options.val.group.val \in DOMAIN fieldGroups
               THEN LET groupFields == fieldGroups[options.val.group.val]
                        InGroup(config) == config.targetKey \in groupFields
                    IN SelectSeq(allConfigs, InGroup)
               ELSE <<>>
     ELSE IF options.val.pick.def /\ Len(options.val.pick.val) > 0
          THEN LET pickSet == SetOf(options.val.pick.val)
                   Picked(config) == config.targetKey \in pickSet
               IN SelectSeq(allConfigs, Picked)
     ELSE IF options.val.omit.def /\ Len(options.val.omit.val) > 0
          THEN LET omitSet == SetOf(options.val.omit.val)
                   Kept(config) == config.targetKey \notin omitSet
               IN SelectSeq(allConfigs, Kept)
     ELSE allConfigs

IsTransformProp(prop) == prop.isTransform /\ prop.source.t = "function"
IsPathProp(prop) == ~IsTransformProp(prop)

\* One mapping of a compiled mapper: for a path mapping source is the path
\* string, for a transform mapping it is the function.
MappingOf(prop) == [target |-> prop.targetKey, source |-> prop.source]

RECURSIVE MappingsOf(_)
MappingsOf(props) ==
  IF props = <<>> THEN <<>>
  ELSE <<MappingOf(Head(props))>> \o MappingsOf(Tail(props))

\* buildMapper(targetType, entry, properties): the closure it returns, with
\* what it captured.  id stands for the identity of the function object.
buildMapper(id, targetType, properties) ==
  [id |-> id,
   targetType |-> targetType,
   pathMappings |-> MappingsOf(SelectSeq(properties, IsPathProp)),
   transformMappings |-> MappingsOf(SelectSeq(properties, IsTransformProp))]

(***************************************************************************)
(* Transform functions and the compiled mapper's body                      *)
(***************************************************************************)

\* A completion of a call: a returned value or a thrown error.
Return(v) == [kind |-> "return", value |-> v]
Throw(e) == [kind |-> "throw", value |-> e]

KeyAge == <<"a","g","e">>
KeyProfile == <<"p">>
KeyAvatar == <<"u">>
AdultAge == 18

\* The transforms the modelled classes declare, applied to (src, ctx):
\*   isAdult    (src) => src.age >= 18
\*   locale     (src, ctx) => ctx?.extras
\*   avatarOf   (src) => src.p.u        (a TypeError when src.p is nullish)
ApplyTransform(name, src, ctx) ==
  CASE name = "isAdult" ->
         LET age == GetProp(src, KeyAge)
         IN Return(Bool(age.t = "number" /\ age.v >= AdultAge))
    [] name = "locale" -> Return(ctx.extras)
    [] name = "avatarOf" ->
         LET p == GetProp(src, KeyProfile)
         IN IF IsNullish(p) THEN Throw(Str(<<"T","y","p","e","E","r","r","o","r">>))
            ELSE Return(GetProp(p, KeyAvatar))
    [] OTHER -> Return(Undefined)

\* A path loop that leaves out the keys whose path resolves to undefined.
RECURSIVE ApplyPathMappingsOmitting(_, _, _, _, _)
ApplyPathMappingsOmitting(result, pc, pathMappings, source, i) ==
  IF i > Len(pathMappings) THEN [result |-> result, pathCache |-> pc]
  ELSE LET mapping == pathMappings[i]
           v == getNestedValue(pc, source, mapping.source.v)
           assigned == IF v = Undefined THEN result
                       ELSE [k \in DOMAIN result \cup {mapping.target} |->
                               IF k = mapping.target THEN v ELSE result[k]]
       IN ApplyPathMappingsOmitting(assigned,
                                    PathCacheAfter(pc, source, mapping.source.v),
                                    pathMappings, source, i + 1)

\* The path loop of the compiled mapper from index i: result and pathCache.
RECURSIVE ApplyPathMappings(_, _, _, _, _)
ApplyPathMappings(result, pc, pathMappings, source, i) ==
  IF i > Len(pathMappings) THEN [result |-> result, pathCache |-> pc]
  ELSE LET mapping == pathMappings[i]
           v == getNestedValue(pc, source, mapping.source.v)
           assigned == [k \in DOMAIN result \cup {mapping.target} |->
                          IF k = mapping.target THEN v ELSE result[k]]
       IN ApplyPathMappings(assigned,
                            PathCacheAfter(pc, source, mapping.source.v),
                            pathMappings, source, i + 1)

\* A transform loop that catches what a transform throws and assigns
\* undefined instead.
RECURSIVE ApplyTransformMappingsCatching(_, _, _, _, _)
ApplyTransformMappingsCatching(result, transformMappings, source, context, i) ==
  IF i > Len(transformMappings) THEN Return(Obj(result))
  ELSE LET mapping == transformMappings[i]
           c == ApplyTransform(mapping.source.name, source, context)
           v == IF c.kind = "throw" THEN Undefined ELSE c.value
       IN ApplyTransformMappingsCatching(
            [k \in DOMAIN result \cup {mapping.target} |->
               IF k = mapping.target THEN v ELSE result[k]],
            transformMappings, source, context, i + 1)

\* The transform loop of the compiled mapper from index i: the completion.
RECURSIVE ApplyTransformMappings(_, _, _, _, _)
ApplyTransformMappings(result, transformMappings, source, context, i) ==
  IF i > Len(transformMappings) THEN Return(Obj(result))
  ELSE LET mapping == transformMappings[i]
           c == ApplyTransform(mapping.source.name, source, context)
       IN IF c.kind = "throw" THEN c
          ELSE ApplyTransformMappings(
                 [k \in DOMAIN result \cup {mapping.target} |->
                    IF k = mapping.target THEN c.value ELSE result[k]],
                 transformMappings, source, context, i + 1)

\* A compiled mapper without the source == null test.
InvokeMapperUnguarded(pc, mapper, source, context) ==
  LET paths == ApplyPathMappings(EmptyProps, pc, mapper.pathMappings,
                                 source, 1)
  IN [completion |-> ApplyTransformMappings(paths.result,
                       mapper.transformMappings, source, context, 1),
      pathCache |-> paths.pathCache]

\* mapper(source, context): its completion and the pathCache it leaves.
\* new targetType() has no own property: the modelled classes declare their
\* fields without initialisers.
InvokeMapper(pc, mapper, source, context) ==
  IF IsNullish(source) THEN [completion |-> Return(Null), pathCache |-> pc]
  ELSE LET paths == ApplyPathMappings(EmptyProps, pc, mapper.pathMappings,
                                      source, 1)
       IN [completion |-> ApplyTransformMappings(paths.result,
                            mapper.transformMappings, source, context, 1),
           pathCache |-> paths.pathCache]

\* A MappingContext with nothing set: Mapper.globalContext = {}.
EmptyContext == [extras |-> Undefined, depth |-> Undefined]

\* { ...this.globalContext, extras: options?.extras, depth: 0, visited }
MapContext(gc, options) ==
  [gc EXCEPT !.extras = IF options.def /\ options.val.extras.def
                        THEN options.val.extras.val ELSE Undefined,
             !.depth = Num(0)]

(***************************************************************************)
(* The classes, options and sources of the model                           *)
(***************************************************************************)

\* Bounds.
MaxMappers == 2
MaxDecorate == 1
MaxDeclare == 3
MaxConsults == 2

Shapes == {"UserDto", "PlainDto"}

KeyA == <<"a">>
KeyB == <<"b">>
KeyC == <<"c">>
KeyD == <<"d">>
KeyE == <<"e">>
KeyAB == <<"a", ",", "b">>
PathAvatar == <<"p", ".", "u">>
GroupG == <<"g">>
GroupH == <<"h">>
EmptyString == <<>>

\* class UserDto {
\*   @FieldGroup("g") @AutoMap() a;
\*   @FieldGroup("g") @MapFrom("p.u") b;
\*   @MapFrom((src) => src.age >= 18) c;
\*   @FieldGroup("g") @Ignore() d;
\* }
\* Decorators of one property run bottom-up, properties top-down.
UserDtoMetadata ==
  FieldGroup(Ignore(
    MapFrom(
      FieldGroup(MapFrom(
        FieldGroup(AutoMap(NoMetadata, KeyA), KeyA, <<GroupG>>),
        KeyB, Str(PathAvatar)), KeyB, <<GroupG>>),
      KeyC, Fn("isAdult")),
    KeyD), KeyD, <<GroupG>>)

\* UserDto with a as well in the group whose name is the empty string:
\*   @FieldGroup("") @FieldGroup("g") @AutoMap() a;
UserDtoEmptyGroupMetadata == FieldGroup(UserDtoMetadata, KeyA, <<EmptyString>>)

\* class UngroupedDto {
\*   @AutoMap() a;
\*   @MapFrom((src) => src.p.u) b;
\*   @MapFrom((src, ctx) => ctx?.extras) c;
\*   @MapFrom("age") @Ignore() d;
\* }
UngroupedDtoMetadata ==
  MapFrom(Ignore(
    MapFrom(
      MapFrom(AutoMap(NoMetadata, KeyA), KeyB, Fn("avatarOf")),
      KeyC, Fn("locale")),
    KeyD), KeyD, Str(KeyAge))

\* class ReorderedDto {
\*   @FieldGroup("g") @MapFrom("p.u") b;
\*   @MapFrom((src) => src.age >= 18) c;
\*   @FieldGroup("g") @AutoMap() a;
\* }
ReorderedDtoMetadata ==
  FieldGroup(AutoMap(
    MapFrom(
      FieldGroup(MapFrom(NoMetadata, KeyB, Str(PathAvatar)), KeyB, <<GroupG>>),
      KeyC, Fn("isAdult")),
    KeyA), KeyA, <<GroupG>>)

\* The class definitions the projections are checked on.
ClassDefinitions ==
  { UserDtoMetadata, UserDtoEmptyGroupMetadata, UngroupedDtoMetadata,
    ReorderedDtoMetadata }

\* class PlainDto {}: no decorator has run on it.
PlainDtoMetadata == NoMetadata

ApplyDecorator(md, call) ==
  CASE call.decorator = "AutoMap" -> AutoMap(md, call.key)
    [] call.decorator = "MapFrom" -> MapFrom(md, call.key, call.arg)
    [] call.decorator = "FieldGroup" ->
         FieldGroup(md, call.key,
                    IF call.arg.t = "array"
                    THEN [i \in 1..Len(call.arg.items) |-> call.arg.items[i].v]
                    ELSE <<call.arg.v>>)
    [] call.decorator = "Ignore" -> Ignore(md, call.key)

\* The field lists callers pass as pick and as omit.
PickLists == { <<>>, <<KeyA>>, <<KeyB>>, <<KeyA, KeyB>>, <<KeyB, KeyA>>,
               <<KeyD, KeyE>>, <<KeyAB>> }
OmitLists == { <<>>, <<KeyA>>, <<KeyA, KeyB>>, <<KeyB, KeyA>> }

\* The group names callers pass.
GroupNames == { EmptyString, GroupG, GroupH }

PickOptions == { MapOptions(Present(f), Absent, Absent, Absent) : f \in PickLists }
OmitOptions == { MapOptions(Absent, Present(f), Absent, Absent) : f \in OmitLists }
GroupOptions == { MapOptions(Absent, Absent, Present(g), Absent) : g \in GroupNames }

\* Options that supply more than one mode.
MixedOptions ==
  { MapOptions(Present(<<KeyA>>), Absent, Present(GroupG), Absent),
    MapOptions(Present(<<KeyA>>), Present(<<KeyB>>), Absent, Absent),
    MapOptions(Present(<<>>), Present(<<KeyA>>), Absent, Absent),
    MapOptions(Absent, Present(<<KeyA>>), Present(GroupG), Absent) }

OptionSet == {Absent} \cup PickOptions \cup OmitOptions \cup GroupOptions
               \cup MixedOptions

\* The options the cache life cycle is exercised with: UserDto with the
\* option-free call, permuted pick and omit lists, two distinct picks and
\* a group; PlainDto, which starts with no declaration, option-free.
CompileOptions(targetType) ==
  IF targetType = "UserDto"
  THEN { Absent,
         MapOptions(Present(<<KeyA>>), Absent, Absent, Absent),
         MapOptions(Present(<<KeyB>>), Absent, Absent, Absent),
         MapOptions(Present(<<KeyA, KeyB>>), Absent, Absent, Absent),
         MapOptions(Present(<<KeyB, KeyA>>), Absent, Absent, Absent),
         MapOptions(Absent, Present(<<KeyA, KeyB>>), Absent, Absent),
         MapOptions(Absent, Present(<<KeyB, KeyA>>), Absent, Absent),
         MapOptions(Absent, Absent, Present(GroupG), Absent) }
  ELSE { Absent }

\* The options Mapper.map and Mapper.getCompiledMapper are called with.
MapOptionSet(targetType) ==
  IF targetType = "UserDto"
  THEN { Absent,
         MapOptions(Present(<<KeyB, KeyA>>), Absent, Absent, Absent),
         MapOptions(Absent, Absent, Present(GroupG), Absent) }
  ELSE { Absent }

\* The options Mapper.map is called with in the projections.
ProjectionMapOptions ==
  MapOptionSet("UserDto")
    \cup { MapOptions(Absent, Present(<<KeyA>>), Absent, Absent),
           MapOptions(Absent, Absent, Present(EmptyString), Absent),
           MapOptions(Absent, Absent, Absent, Present(Str(<<"x">>))) }

\* The decorator applications made on each class after it is defined.
LateDecorators(targetType) ==
  IF targetType = "UserDto"
  THEN { [decorator |-> "AutoMap", key |-> KeyE, arg |-> Undefined],
         [decorator |-> "Ignore", key |-> KeyA, arg |-> Undefined] }
  ELSE { [decorator |-> "FieldGroup", key |-> KeyE, arg |-> Str(GroupH)] }

\* { a: "x", age: 25, p: { u: "y" } } and { a: "x", age: 7 }
FullSource ==
  Obj([k \in {KeyA, KeyAge, KeyProfile} |->
         IF k = KeyA THEN Str(<<"x">>)
         ELSE IF k = KeyAge THEN Num(25)
         ELSE Obj([j \in {KeyAvatar} |-> Str(<<"y">>)])])
BareSource ==
  Obj([k \in {KeyA, KeyAge} |-> IF k = KeyA THEN Str(<<"x">>) ELSE Num(7)])

Sources == { Null, Undefined, FullSource, BareSource }

\* The sources Mapper.map is called with.
MapSources == { Null, FullSource }

\* What Mapper.mapArray is called with as sources: no array, the empty
\* array, arrays with null and undefined elements.
ArrayInputs ==
  { Null, Undefined, FullSource, Str(<<>>), Arr(<<>>),
    Arr(<<FullSource, Null, BareSource>>),
    Arr(<<Undefined, FullSource>>) }

\* The options Mapper.mapArray is called with.
ArrayOptions ==
  { Absent,
    MapOptions(Present(<<KeyB, KeyA>>), Absent, Absent, Absent),
    MapOptions(Absent, Absent, Absent, Present(Str(<<"x">>))) }

\* The objects and paths getNestedValue is called with: a source of its
\* own (as JSON.parse gives it) holding the properties "constructor",
\* "prototype" and "__proto__", and paths with a blocked segment first,
\* last, in the middle and alone.
KeyConstructor == <<"c","o","n","s","t","r","u","c","t","o","r">>
KeyProto == <<"_","_","p","r","o","t","o","_","_">>
KeyPrototype == <<"p","r","o","t","o","t","y","p","e">>
KeyLength == <<"l","e","n","g","t","h">>

PollutedSource ==
  Obj([k \in {KeyA, KeyConstructor, KeyProto, KeyPrototype} |->
         IF k = KeyA
         THEN Obj([j \in {KeyConstructor} |-> Str(<<"z">>)])
         ELSE Obj([j \in {KeyAvatar} |-> Str(<<"z">>)])])

PathSources ==
  { Null, Undefined, Num(5), Str(<<"x">>), FullSource, PollutedSource }

Paths ==
  { KeyA, KeyAge, KeyLength, PathAvatar, KeyConstructor, KeyProto,
    KeyPrototype,
    KeyA \o <<".">> \o KeyLength,
    KeyProto \o <<".">> \o KeyAvatar,
    KeyA \o <<".">> \o KeyConstructor,
    KeyConstructor \o <<".">> \o KeyPrototype,
    KeyProfile \o <<".">> \o KeyConstructor \o <<".">> \o KeyAvatar,
    KeyE \o <<".">> \o KeyPrototype,
    KeyA \o <<".">> \o KeyAvatar }

(***************************************************************************)
(* State                                                                   *)
(***************************************************************************)

VARIABLES
  metadata,        \* Reflect metadata of each class
  registry,        \* MappingRegistry.registry: class -> entry
  compiledMappers, \* MappingRegistry.compiledMappers: class -> key -> mapper
  pathCache,       \* utils pathCache: path -> segments
  globalContext,   \* Mapper.globalContext
  built,           \* per class and key: how many functions buildMapper returned
  decorated,       \* how many decorators ran after the classes were defined
  consulted,       \* per class: createEntryFromMetadata calls since the last
                   \* clearCache
  compiledSince,   \* per class: whether createMapper ran on it since the last
                   \* clearCache
  redefined,       \* per class: "no", "pending" (decorated since the last
                   \* clearCache) or "cleared" (decorated, then clearCache)
  call,            \* the last call made and what it returned
  service,         \* the MapperService instance and its calls in flight
  frames,          \* per caller: the createMapper call it is in, step by step
  applied          \* the decorators DeclareMember ran, in the order they ran

vars == <<metadata, registry, compiledMappers, pathCache, globalContext,
          built, decorated, consulted, compiledSince, redefined, call,
          service, frames, applied>>

NoResult == [kind |-> "none"]

\* No MapperService was constructed.
NoService == [constructed |-> FALSE]

\* The callers whose createMapper calls run step by step, and a caller
\* that is in no call.
Callers == {1, 2}
NoFrame == [pc |-> "idle"]

CallRecord(op, targetType, options, after, hit, ret, source, result) ==
  [op |-> op, target |-> targetType, options |-> options, after |-> after,
   hit |-> hit, ret |-> ret, source |-> source, result |-> result]

\* The state once the classes are defined, UserDto with the metadata md.
InitWith(md) ==
  /\ metadata = [t \in Shapes |->
                   IF t = "UserDto" THEN md ELSE PlainDtoMetadata]
  /\ registry = [t \in {} |-> 0]
  /\ compiledMappers = [t \in {} |-> 0]
  /\ pathCache = [p \in {} |-> <<>>]
  /\ globalContext = EmptyContext
  /\ built = [t \in Shapes |-> [k \in {} |-> 0]]
  /\ decorated = 0
  /\ consulted = [t \in Shapes |-> 0]
  /\ compiledSince = [t \in Shapes |-> FALSE]
  /\ redefined = [t \in Shapes |-> "no"]
  /\ service = NoService
  /\ frames = [c \in Callers |-> NoFrame]
  /\ applied = <<>>
  /\ call = CallRecord("none", "none", Absent, Absent, FALSE, Absent,
                       Undefined, NoResult)

Init == InitWith(UserDtoMetadata)

(***************************************************************************)
(* MapperFactory.createMapper                                              *)
(***************************************************************************)

\* How many functions were built for (targetType, optionsKey).
BuiltCount(b, targetType, optionsKey) ==
  IF optionsKey \in DOMAIN b[targetType] THEN b[targetType][optionsKey] ELSE 0

\* The sum of f over the keys ks of its domain.
RECURSIVE SumOver(_, _)
SumOver(f, ks) ==
  IF ks = {} THEN 0
  ELSE LET k == CHOOSE x \in ks : TRUE IN f[k] + SumOver(f, ks \ {k})

RECURSIVE TotalOver(_, _)
TotalOver(b, ts) ==
  IF ts = {} THEN 0
  ELSE LET t == CHOOSE x \in ts : TRUE
       IN SumOver(b[t], DOMAIN b[t]) + TotalOver(b, ts \ {t})

\* How many functions were built in all.
TotalBuilt(b) == TotalOver(b, DOMAIN b)

\* The identity of the next function built for (targetType, optionsKey):
\* every call of buildMapper returns a new closure.
NewFunctionId(b, targetType, optionsKey) ==
  [target |-> targetType, key |-> optionsKey,
   n |-> BuiltCount(b, targetType, optionsKey) + 1]

BuiltAfter(b, targetType, optionsKey) ==
  [b EXCEPT ![targetType] =
     [k \in DOMAIN b[targetType] \cup {optionsKey} |->
        IF k = optionsKey THEN BuiltCount(b, targetType, optionsKey) + 1
        ELSE b[targetType][k]]]

\* A createMapper that, when createEntryFromMetadata raises, stores an
\* entry with Maps of its own before the error leaves it.
createMapperRaisedStoring(reg, cm, b, targetType, error) ==
  [registry |-> [t \in DOMAIN reg \cup {targetType} |->
                   IF t = targetType
                   THEN [targetType |-> targetType, propertyConfigs |-> "fresh",
                         fieldGroups |-> "fresh"]
                   ELSE reg[t]],
   compiledMappers |-> cm, built |-> b, consults |-> 1, hit |-> FALSE,
   thrown |-> Present(error)]

\* createMapper when createEntryFromMetadata raises error inside getEntry:
\* the error leaves getEntry before registry.set and createMapper before
\* anything else ran.
createMapperRaised(reg, cm, b, targetType, error) ==
  [registry |-> reg, compiledMappers |-> cm, built |-> b, consults |-> 1,
   hit |-> FALSE, thrown |-> Present(error)]

\* The bounds of the model on one createMapper call: the functions built
\* and the times the metadata of a class is read between two clearCache().
WithinBounds(r, targetType) ==
  /\ r.built # built => TotalBuilt(built) < MaxMappers
  /\ r.consults # 0 => consulted[targetType] < MaxConsults

\* What createMapper(targetType, options) does to the registry and the
\* cache and what it returns; b counts the functions built so far.
createMapper(reg, cm, md, b, targetType, options) ==
  IF targetType \notin DOMAIN reg /\ MetadataRaises(md)
  THEN createMapperRaised(reg, cm, b, targetType, md.raises)
  ELSE
  LET reg1 == RegistryAfterGetEntry(reg, md, targetType)
      entry == getEntry(reg, md, targetType)
      optionsKey == getOptionsKey(options)
      cached == getCompiledMapper(cm, targetType, optionsKey)
      propertiesToMap ==
        getPropertiesToMap(EntryPropertyConfigs(md, entry),
                           EntryFieldGroups(md, entry),
                           OptionsAfterKey(options))
      built1 == buildMapper(NewFunctionId(b, targetType, optionsKey),
                            targetType, propertiesToMap)
  IN IF cached.def
     THEN [registry |-> reg1, compiledMappers |-> cm, built |-> b,
           consults |-> GetEntryConsults(reg, targetType),
           hit |-> TRUE, thrown |-> Absent, mapper |-> cached.val]
     ELSE [registry |-> reg1,
           compiledMappers |->
             setCompiledMapper(cm, targetType, optionsKey, built1),
           built |-> BuiltAfter(b, targetType, optionsKey),
           consults |-> GetEntryConsults(reg, targetType),
           hit |-> FALSE, thrown |-> Absent, mapper |-> built1]

\* The bookkeeping of one createMapper(targetType, ...) call that made
\* consults calls of createEntryFromMetadata.
Bookkeeping(targetType, consults) ==
  /\ consulted' = [consulted EXCEPT ![targetType] = @ + consults]
  /\ compiledSince' = [compiledSince EXCEPT ![targetType] = TRUE]

\* MapperFactory.createMapper(targetType, options)
CreateMapper(targetType, options) ==
  LET r == createMapper(registry, compiledMappers, metadata[targetType],
                        built, targetType, options)
  IN /\ WithinBounds(r, targetType)
     /\ registry' = r.registry
     /\ compiledMappers' = r.compiledMappers
     /\ built' = r.built
     /\ Bookkeeping(targetType, r.consults)
     /\ call' = IF r.thrown.def
                THEN CallRecord("createMapper", targetType, options, options,
                                FALSE, Absent, Undefined, Throw(r.thrown.val))
                ELSE CallRecord("createMapper", targetType, options,
                                OptionsAfterKey(options), r.hit,
                                Present(r.mapper), Undefined, NoResult)
     /\ UNCHANGED service
     /\ UNCHANGED frames
     /\ UNCHANGED applied
     /\ UNCHANGED <<metadata, pathCache, globalContext, decorated, redefined>>

(***************************************************************************)
(* Mapper: the facade                                                      *)
(***************************************************************************)

\* Mapper.map(source, targetType, options)
Map(source, targetType, options) ==
  IF IsNullish(source)
  THEN /\ call' = CallRecord("map", targetType, options, options, FALSE,
                             Absent, source, Return(Null))
       /\ UNCHANGED service
       /\ UNCHANGED frames
       /\ UNCHANGED applied
       /\ UNCHANGED <<metadata, registry, compiledMappers, pathCache,
                      globalContext, built, decorated, consulted,
                      compiledSince, redefined>>
  ELSE LET r == createMapper(registry, compiledMappers, metadata[targetType],
                             built, targetType, options)
           context == MapContext(globalContext, options)
           inv == InvokeMapper(pathCache, r.mapper, source, context)
       IN /\ WithinBounds(r, targetType)
          /\ registry' = r.registry
          /\ compiledMappers' = r.compiledMappers
          /\ built' = r.built
          /\ pathCache' = IF r.thrown.def THEN pathCache ELSE inv.pathCache
          /\ Bookkeeping(targetType, r.consults)
          /\ call' = IF r.thrown.def
                     THEN CallRecord("map", targetType, options, options,
                                     FALSE, Absent, source,
                                     Throw(r.thrown.val))
                     ELSE CallRecord("map", targetType, options,
                                     OptionsAfterKey(options), r.hit,
                                     Present(r.mapper), source, inv.completion)
          /\ UNCHANGED service
          /\ UNCHANGED frames
          /\ UNCHANGED applied
          /\ UNCHANGED <<metadata, globalContext, decorated, redefined>>

\* !sources || !Array.isArray(sources), on the values of the model.
NotAnArray(sources) == sources.t # "array"

\* A mapArray loop that skips the null and undefined elements.
RECURSIVE MapArrayLoopSkipping(_, _, _, _, _, _)
MapArrayLoopSkipping(result, pc, mapper, sources, context, i) ==
  IF i > Len(sources)
  THEN [completion |-> Return(Arr(result)), pathCache |-> pc]
  ELSE IF IsNullish(sources[i])
       THEN MapArrayLoopSkipping(result, pc, mapper, sources, context, i + 1)
  ELSE LET inv == InvokeMapper(pc, mapper, sources[i], context)
       IN IF inv.completion.kind = "throw" THEN inv
          ELSE MapArrayLoopSkipping(Append(result, inv.completion.value),
                                    inv.pathCache, mapper, sources, context,
                                    i + 1)

\* The loop of mapArray from index i over the elements sources: the
\* completion (the result array, or what an invocation threw) and the
\* pathCache it leaves.
RECURSIVE MapArrayLoop(_, _, _, _, _, _)
MapArrayLoop(result, pc, mapper, sources, context, i) ==
  IF i > Len(sources)
  THEN [completion |-> Return(Arr(result)), pathCache |-> pc]
  ELSE IF IsNullish(sources[i])
       THEN MapArrayLoop(Append(result, Null), pc, mapper, sources, context,
                         i + 1)
  ELSE LET inv == InvokeMapper(pc, mapper, sources[i], context)
       IN IF inv.completion.kind = "throw" THEN inv
          ELSE MapArrayLoop(Append(result, inv.completion.value),
                            inv.pathCache, mapper, sources, context, i + 1)

\* A mapArray that compiles before it looks at sources.
mapArrayCompilingFirst(reg, cm, md, b, pc, gc, sources, targetType, options) ==
  LET r == createMapper(reg, cm, md, b, targetType, options)
  IN IF NotAnArray(sources)
     THEN [registry |-> r.registry, compiledMappers |-> r.compiledMappers,
           built |-> r.built, pathCache |-> pc, consults |-> r.consults,
           compiled |-> TRUE, hit |-> r.hit, mapper |-> Absent,
           after |-> OptionsAfterKey(options),
           completion |-> Return(Arr(<<>>))]
     ELSE LET loop == MapArrayLoop(<<>>, pc, r.mapper, sources.items,
                                   MapContext(gc, options), 1)
          IN [registry |-> r.registry, compiledMappers |-> r.compiledMappers,
              built |-> r.built, pathCache |-> loop.pathCache,
              consults |-> r.consults, compiled |-> TRUE, hit |-> r.hit,
              mapper |-> Present(r.mapper),
              after |-> OptionsAfterKey(options),
              completion |-> loop.completion]

\* What mapArray(sources, targetType, options) does to the registry, the
\* cache and pathCache, and its completion.
mapArray(reg, cm, md, b, pc, gc, sources, targetType, options) ==
  IF NotAnArray(sources)
  THEN [registry |-> reg, compiledMappers |-> cm, built |-> b,
        pathCache |-> pc, consults |-> 0, compiled |-> FALSE, hit |-> FALSE,
        mapper |-> Absent, after |-> options,
        completion |-> Return(Arr(<<>>))]
  ELSE LET r == createMapper(reg, cm, md, b, targetType, options)
           loop == MapArrayLoop(<<>>, pc, r.mapper, sources.items,
                                MapContext(gc, options), 1)
       IN IF r.thrown.def
          THEN [registry |-> r.registry, compiledMappers |-> r.compiledMappers,
                built |-> r.built, pathCache |-> pc, consults |-> r.consults,
                compiled |-> TRUE, hit |-> FALSE, mapper |-> Absent,
                after |-> options, completion |-> Throw(r.thrown.val)]
          ELSE [registry |-> r.registry,
                compiledMappers |-> r.compiledMappers,
                built |-> r.built, pathCache |-> loop.pathCache,
                consults |-> r.consults, compiled |-> TRUE, hit |-> r.hit,
                mapper |-> Present(r.mapper),
                after |-> OptionsAfterKey(options),
                completion |-> loop.completion]

\* Mapper.mapArray(sources, targetType, options)
MapArray(sources, targetType, options) ==
  LET r == mapArray(registry, compiledMappers, metadata[targetType], built,
                    pathCache, globalContext, sources, targetType, options)
  IN /\ WithinBounds(r, targetType)
     /\ registry' = r.registry
     /\ compiledMappers' = r.compiledMappers
     /\ built' = r.built
     /\ pathCache' = r.pathCache
     /\ consulted' = [consulted EXCEPT ![targetType] = @ + r.consults]
     /\ compiledSince' = [compiledSince EXCEPT
                            ![targetType] = @ \/ r.compiled]
     /\ call' = CallRecord("mapArray", targetType, options, r.after, r.hit,
                           r.mapper, sources, r.completion)
     /\ UNCHANGED service
     /\ UNCHANGED frames
     /\ UNCHANGED applied
     /\ UNCHANGED <<metadata, globalContext, decorated, redefined>>

\* Mapper.getCompiledMapper(targetType, options)
GetCompiledMapper(targetType, options) ==
  LET optionsKey == getOptionsKey(options)
      found == getCompiledMapper(compiledMappers, targetType, optionsKey)
  IN /\ call' = CallRecord("getCompiledMapper", targetType, options,
                           OptionsAfterKey(options), found.def, found,
                           Undefined, NoResult)
     /\ UNCHANGED service
     /\ UNCHANGED frames
     /\ UNCHANGED applied
     /\ UNCHANGED <<metadata, registry, compiledMappers, pathCache,
                    globalContext, built, decorated, consulted,
                    compiledSince, redefined>>

\* Mapper.clearCache() -> MappingRegistry.clearCache()
ClearCache ==
  /\ registry' = RegistryAfterClear(registry)
  /\ compiledMappers' = CompiledMappersAfterClear(compiledMappers)
  /\ consulted' = [t \in Shapes |-> 0]
  /\ compiledSince' = [t \in Shapes |-> FALSE]
  /\ redefined' = [t \in Shapes |->
                     IF redefined[t] = "pending" THEN "cleared" ELSE redefined[t]]
  /\ call' = CallRecord("clearCache", "none", Absent, Absent, FALSE, Absent,
                        Undefined, NoResult)
  /\ UNCHANGED service
  /\ UNCHANGED frames
  /\ UNCHANGED applied
  /\ UNCHANGED <<metadata, pathCache, globalContext, built, decorated>>

\* A decorator applied to a property of targetType after start-up.
DecorateWithin(targetType, dcall, max) ==
  /\ decorated < max
  /\ decorated' = decorated + 1
  /\ metadata' = [metadata EXCEPT
                    ![targetType] = ApplyDecorator(metadata[targetType], dcall)]
  /\ redefined' = [redefined EXCEPT ![targetType] = "pending"]
  /\ call' = CallRecord("decorate", targetType, Absent, Absent, FALSE, Absent,
                        Undefined, NoResult)
  /\ UNCHANGED service
  /\ UNCHANGED frames
  /\ UNCHANGED <<registry, compiledMappers, pathCache, globalContext, built,
                 consulted, compiledSince>>

\* A decorator runs on a member of a class that was defined before.
Decorate(targetType, dcall) ==
  /\ DecorateWithin(targetType, dcall, MaxDecorate)
  /\ UNCHANGED applied

\* A decorator of the definition of a class runs on a member of it.
DeclareMember(targetType, dcall) ==
  /\ DecorateWithin(targetType, dcall, MaxDeclare)
  /\ applied' = Append(applied, [target |-> targetType, dcall |-> dcall])

Next ==
  \/ \E t \in Shapes : \E o \in CompileOptions(t) : CreateMapper(t, o)
  \/ \E t \in Shapes : \E s \in MapSources, o \in MapOptionSet(t) : Map(s, t, o)
  \/ \E t \in Shapes : \E o \in MapOptionSet(t) : GetCompiledMapper(t, o)
  \/ ClearCache
  \/ \E t \in Shapes : \E d \in LateDecorators(t) : Decorate(t, d)

Spec == Init /\ [][Next]_vars

(***************************************************************************)
(* Mapper.setGlobalContext                                                 *)
(***************************************************************************)

\* { ...this.globalContext, ...context }: context is a Partial, each of its
\* fields Absent or Present.
SpreadContext(gc, context) ==
  [extras |-> IF context.extras.def THEN context.extras.val ELSE gc.extras,
   depth |-> IF context.depth.def THEN context.depth.val ELSE gc.depth]

\* The extras set globally, and the contexts setGlobalContext is called
\* with (MapperService passes { extras: globalExtras }).
GlobalExtras == Obj([k \in {KeyE} |-> Str(<<"x">>)])
OtherExtras == Obj([k \in {KeyE} |-> Str(<<"y">>)])
PartialContexts ==
  { [extras |-> Present(GlobalExtras), depth |-> Absent],
    [extras |-> Present(OtherExtras), depth |-> Absent],
    [extras |-> Absent, depth |-> Present(Num(1))] }

\* The options Mapper.map is called with once a global context is set.
ContextOptions ==
  { Absent,
    MapOptions(Present(<<KeyC>>), Absent, Absent, Absent),
    MapOptions(Absent, Absent, Absent, Present(Str(<<"x">>))) }

\* Mapper.setGlobalContext(context)
SetGlobalContext(context) ==
  /\ globalContext' = SpreadContext(globalContext, context)
  /\ call' = [op |-> "setGlobalContext", context |-> context]
  /\ UNCHANGED service
  /\ UNCHANGED frames
  /\ UNCHANGED applied
  /\ UNCHANGED <<metadata, registry, compiledMappers, pathCache, built,
                 decorated, consulted, compiledSince, redefined>>

(***************************************************************************)
(* MapperService                                                           *)
(*                                                                         *)
(* service.validator is "null" or "loaded"; service.load is the position   *)
(* of initializeValidator: "idle" (never called), "pending" (suspended at  *)
(* await import("class-validator")), "loaded" or "failed".  installed says *)
(* whether the import can succeed.  service.awaiting is the mapAndValidate *)
(* call suspended at await this.validator.validate(result), if any.        *)
(***************************************************************************)

\* The options a MapperService is constructed with.
ServiceOptions ==
  { [enableValidation |-> TRUE, globalExtras |-> Absent],
    [enableValidation |-> FALSE, globalExtras |-> Absent],
    [enableValidation |-> TRUE, globalExtras |-> Present(GlobalExtras)] }

\* class-validator's validate(obj) for the DTOs of the model, whose field b
\* must be defined: the errors it resolves to.
ValidationErrors(obj) ==
  IF obj.t = "object" /\ KeyB \in DOMAIN obj.props
       /\ obj.props[KeyB] = Undefined
  THEN <<Str(KeyB)>>
  ELSE <<>>

\* A settled promise.
Resolved(v) == [kind |-> "resolved", value |-> v]
Rejected(e) == [kind |-> "rejected", value |-> e]

\* new MapperService(options), where installed says whether class-validator
\* can be imported.
NewMapperService(options, installed) ==
  /\ ~service.constructed
  /\ globalContext' =
       IF options.globalExtras.def
       THEN SpreadContext(globalContext,
                          [extras |-> options.globalExtras, depth |-> Absent])
       ELSE globalContext
  /\ service' = [constructed |-> TRUE,
                 enableValidation |-> options.enableValidation,
                 installed |-> installed,
                 validator |-> "null",
                 load |-> IF options.enableValidation THEN "pending"
                          ELSE "idle",
                 awaiting |-> Absent]
  /\ call' = [op |-> "newMapperService", options |-> options]
  /\ UNCHANGED frames
  /\ UNCHANGED applied
  /\ UNCHANGED <<metadata, registry, compiledMappers, pathCache, built,
                 decorated, consulted, compiledSince, redefined>>

\* initializeValidator resumes after its await: the import resolved and
\* this.validator is assigned, or it rejected and the catch block ran.
ValidatorImportSettles ==
  /\ service.constructed
  /\ service.load = "pending"
  /\ service' = [service EXCEPT
                   !.validator = IF service.installed THEN "loaded" ELSE "null",
                   !.load = IF service.installed THEN "loaded" ELSE "failed"]
  /\ call' = [op |-> "validatorImportSettles"]
  /\ UNCHANGED frames
  /\ UNCHANGED applied
  /\ UNCHANGED <<metadata, registry, compiledMappers, pathCache,
                 globalContext, built, decorated, consulted, compiledSince,
                 redefined>>

\* service.mapAndValidate(source, targetType, options) up to its first
\* await, for a source that is not null: it maps, and either suspends at
\* validate(result) or returns the result without validating.
MapAndValidate(source, targetType, options) ==
  LET r == createMapper(registry, compiledMappers, metadata[targetType],
                        built, targetType, options)
      inv == InvokeMapper(pathCache, r.mapper, source,
                          MapContext(globalContext, options))
      validates == service.validator # "null" /\ service.enableValidation
      started == [source |-> source, target |-> targetType,
                  options |-> options, result |-> inv.completion.value]
  IN /\ service.constructed
     /\ ~service.awaiting.def
     /\ ~r.hit => TotalBuilt(built) < MaxMappers
     /\ registry' = r.registry
     /\ compiledMappers' = r.compiledMappers
     /\ built' = r.built
     /\ pathCache' = inv.pathCache
     /\ Bookkeeping(targetType, r.consults)
     /\ IF inv.completion.kind = "throw"
        THEN /\ call' = [op |-> "mapAndValidate", source |-> source,
                         target |-> targetType, options |-> options,
                         mapped |-> Absent, validated |-> FALSE,
                         outcome |-> Rejected(inv.completion.value)]
             /\ UNCHANGED service
        ELSE IF validates
        THEN /\ call' = [op |-> "mapAndValidateAwaits"]
             /\ service' = [service EXCEPT !.awaiting = Present(started)]
        ELSE /\ call' = [op |-> "mapAndValidate", source |-> source,
                         target |-> targetType, options |-> options,
                         mapped |-> Present(inv.completion.value),
                         validated |-> FALSE,
                         outcome |-> Resolved(inv.completion.value)]
             /\ UNCHANGED service
     /\ UNCHANGED frames
     /\ UNCHANGED applied
     /\ UNCHANGED <<metadata, globalContext, decorated, redefined>>

\* mapAndValidate resumes after await this.validator.validate(result).
ValidateSettles ==
  /\ service.constructed
  /\ service.awaiting.def
  /\ LET started == service.awaiting.val
         errors == ValidationErrors(started.result)
     IN call' = [op |-> "mapAndValidate", source |-> started.source,
                 target |-> started.target, options |-> started.options,
                 mapped |-> Present(started.result), validated |-> TRUE,
                 outcome |-> IF Len(errors) > 0 THEN Rejected(errors)
                             ELSE Resolved(started.result)]
  /\ service' = [service EXCEPT !.awaiting = Absent]
  /\ UNCHANGED frames
  /\ UNCHANGED applied
  /\ UNCHANGED <<metadata, registry, compiledMappers, pathCache,
                 globalContext, built, decorated, consulted, compiledSince,
                 redefined>>

(***************************************************************************)
(* utils: getNestedValue called on its own                                 *)
(***************************************************************************)

\* getNestedValue(obj, path)
GetNestedValue(obj, path) ==
  /\ pathCache' = PathCacheAfter(pathCache, obj, path)
  /\ call' = [op |-> "getNestedValue", source |-> obj, path |-> path,
              cached |-> path \in DOMAIN pathCache,
              reads |-> NestedReads(pathCache, obj, path),
              result |-> Return(getNestedValue(pathCache, obj, path))]
  /\ UNCHANGED service
  /\ UNCHANGED frames
  /\ UNCHANGED applied
  /\ UNCHANGED <<metadata, registry, compiledMappers, globalContext, built,
                 decorated, consulted, compiledSince, redefined>>

NextPath == \E obj \in PathSources, path \in Paths : GetNestedValue(obj, path)

SpecPath == Init /\ [][NextPath]_vars

(***************************************************************************)
(* The projections: one class, drawn from ClassDefinitions, compiled and   *)
(* mapped with every option of OptionSet.                                  *)
(***************************************************************************)

InitProjection == \E md \in ClassDefinitions : InitWith(md)

NextProjection ==
  \/ \E o \in OptionSet : CreateMapper("UserDto", o)
  \/ \E s \in Sources, o \in ProjectionMapOptions : Map(s, "UserDto", o)

SpecProjection == InitProjection /\ [][NextProjection]_vars

(***************************************************************************)
(* Arrays: one class, drawn from ClassDefinitions, mapped element by       *)
(* element and as a single source.                                         *)
(***************************************************************************)

NextArray ==
  \/ \E xs \in ArrayInputs, o \in ArrayOptions : MapArray(xs, "UserDto", o)
  \/ \E s \in Sources, o \in ArrayOptions : Map(s, "UserDto", o)

SpecArray == InitProjection /\ [][NextArray]_vars

\* The global context: set, then read by the transforms of map and mapArray.
NextContext ==
  \/ \E context \in PartialContexts : SetGlobalContext(context)
  \/ \E s \in MapSources, o \in ContextOptions : Map(s, "UserDto", o)
  \/ \E o \in ContextOptions :
       MapArray(Arr(<<FullSource, Null>>), "UserDto", o)

SpecContext == InitProjection /\ [][NextContext]_vars

\* A MapperService: constructed, its validator loading, mapAndValidate
\* called at any moment after the constructor returned.
NextService ==
  \/ \E options \in ServiceOptions, installed \in BOOLEAN :
       NewMapperService(options, installed)
  \/ ValidatorImportSettles
  \/ \E s \in {FullSource, BareSource}, o \in ArrayOptions :
       MapAndValidate(s, "UserDto", o)
  \/ ValidateSettles

SpecService == InitProjection /\ [][NextService]_vars

(***************************************************************************)
(* What the properties below speak of                                      *)
(***************************************************************************)

\* The last call went through MapperFactory.createMapper and got a mapper.
CompiledCall == call.op \in {"createMapper", "map"} /\ call.ret.def

\* The last call built its mapper: nothing was cached under its key.
BuiltCall == CompiledCall /\ ~call.hit

\* The keys a compiled mapper assigns.
AssignedKeys(mapper) ==
  {mapper.pathMappings[i].target : i \in 1..Len(mapper.pathMappings)}
    \cup {mapper.transformMappings[i].target :
            i \in 1..Len(mapper.transformMappings)}

\* The (target, source) pairs a compiled mapper assigns from.
AssignedMappings(mapper) ==
  {mapper.pathMappings[i] : i \in 1..Len(mapper.pathMappings)}
    \cup {mapper.transformMappings[i] :
            i \in 1..Len(mapper.transformMappings)}

\* The declarations of a class, and those not marked ignore.
Declarations(md) == {ExistingMappings(md)[i] : i \in 1..Len(ExistingMappings(md))}
NonIgnoredDeclarations(md) == {d \in Declarations(md) : ~d.ignore}
NonIgnoredKeys(md) == {d.targetKey : d \in NonIgnoredDeclarations(md)}

\* Options that supply exactly one mode.
PurePick(o) ==
  o.def /\ o.val.pick.def /\ ~o.val.omit.def /\ ~o.val.group.def
PureOmit(o) ==
  o.def /\ ~o.val.pick.def /\ o.val.omit.def /\ ~o.val.group.def
PureGroup(o) ==
  o.def /\ ~o.val.pick.def /\ ~o.val.omit.def /\ o.val.group.def

\* Two options of the same mode whose field lists are permutations of each
\* other (the lists of the model hold no duplicates).
SameList(x, y) ==
  /\ x.def = y.def
  /\ x.def => (Len(x.val) = Len(y.val) /\ SetOf(x.val) = SetOf(y.val))
Permuted(o1, o2) ==
  /\ o1.def /\ o2.def
  /\ SameList(o1.val.pick, o2.val.pick)
  /\ SameList(o1.val.omit, o2.val.omit)
  /\ o1.val.group = o2.val.group

\* The last call was Mapper.map on a source that is not null or undefined
\* and returned an object.
MappedCall ==
  /\ call.op = "map"
  /\ ~IsNullish(call.source)
  /\ call.result.kind = "return"

\* The value a dotted path names in a source: each segment read in turn,
\* undefined as soon as a segment is read off something that is no object.
RECURSIVE ResolveFrom(_, _, _)
ResolveFrom(v, segments, i) ==
  IF i > Len(segments) THEN v
  ELSE IF v.t # "object" THEN Undefined
  ELSE ResolveFrom(IF segments[i] \in DOMAIN v.props
                   THEN v.props[segments[i]] ELSE Undefined,
                   segments, i + 1)
DottedPath(source, path) == ResolveFrom(source, StrSplit(path, "."), 1)

(***************************************************************************)
(* The cache life cycle (Spec)                                             *)
(***************************************************************************)

\* C1: cache identity.  For every class and every options key at most one
\* function is ever built, and every createMapper call (direct or through
\* Mapper.map) returns that first function of its key, whatever calls came
\* before it; options whose pick or omit lists are permutations of each
\* other have the same key.
C1_CacheIdentity ==
  /\ \A t \in Shapes : \A k \in DOMAIN built[t] : built[t][k] <= 1
  /\ CompiledCall =>
       /\ call.ret.val.id = [target |-> call.target,
                             key |-> getOptionsKey(call.options), n |-> 1]
       /\ \A o \in CompileOptions(call.target) :
            Permuted(o, call.options) =>
              getOptionsKey(o) = getOptionsKey(call.options)

\* C1 witness: pick(["b","a"]) is answered from the cache while a mapper of
\* another key is cached beside it.
C1_Witness ==
  /\ call.op = "createMapper"
  /\ call.hit
  /\ call.options = MapOptions(Present(<<KeyB, KeyA>>), Absent, Absent, Absent)
  /\ call.ret.val.id.key = <<"p","i","c","k",":","a",",","b">>
  /\ "UserDto" \in DOMAIN compiledMappers
  /\ Cardinality(DOMAIN compiledMappers["UserDto"]) >= 2

\* C2: after clearCache() no compiled mapper is found for any class and any
\* options.
C2_ClearDiscardsMappers ==
  call.op = "clearCache" =>
    \A t \in Shapes : \A o \in CompileOptions(t) :
      ~getCompiledMapper(compiledMappers, t, getOptionsKey(o)).def

\* C3: once the declarations of a class changed and clearCache() was called,
\* the mapper createMapper returns assigns only from current non-ignored
\* declarations, and with no options from all of them.
C3_RedefinitionTakesEffect ==
  (call.op = "createMapper" /\ redefined[call.target] = "cleared") =>
    LET current == {MappingOf(d) :
                      d \in NonIgnoredDeclarations(metadata[call.target])}
    IN /\ AssignedMappings(call.ret.val) \subseteq current
       /\ ~call.options.def => AssignedMappings(call.ret.val) = current

\* C4: cache distinctness.  The mappers cached for one class under
\* different keys are different functions, and a createMapper call returns
\* the function cached under its own key and none cached under another.
C4_CacheDistinctness ==
  /\ \A t \in DOMAIN compiledMappers :
       \A k1, k2 \in DOMAIN compiledMappers[t] :
         k1 # k2 => compiledMappers[t][k1].id # compiledMappers[t][k2].id
  /\ CompiledCall =>
       LET key == getOptionsKey(call.options)
           typeMappers == compiledMappers[call.target]
       IN /\ key \in DOMAIN typeMappers
          /\ typeMappers[key].id = call.ret.val.id
          /\ \A k \in DOMAIN typeMappers \ {key} :
               typeMappers[k].id # call.ret.val.id

\* C4 witness: pick(["b"]) is compiled while the mapper of pick(["a"]) is
\* cached.
C4_Witness ==
  /\ call.op = "createMapper"
  /\ ~call.hit
  /\ call.options = MapOptions(Present(<<KeyB>>), Absent, Absent, Absent)
  /\ <<"p","i","c","k",":","a">> \in DOMAIN compiledMappers["UserDto"]
  /\ <<"p","i","c","k",":","b">> \in DOMAIN compiledMappers["UserDto"]

\* C5: since the last clearCache() (or start-up) createEntryFromMetadata
\* ran exactly once for each class createMapper was called on, and not at
\* all for the others.
C5_ProviderConsultedOnce ==
  \A t \in Shapes : consulted[t] = IF compiledSince[t] THEN 1 ELSE 0

\* C5 witness: after a clearCache() a createMapper call finds its mapper in
\* the cache, and the metadata was read once again.
C5_Witness ==
  /\ CompiledCall
  /\ call.hit
  /\ redefined[call.target] = "cleared"
  /\ consulted[call.target] = 1

(***************************************************************************)
(* The projections (SpecProjection)                                        *)
(***************************************************************************)

C7_PickExact ==
  (BuiltCall /\ PurePick(call.options)) =>
    AssignedKeys(call.ret.val) =
      SetOf(call.options.val.pick.val) \cap NonIgnoredKeys(metadata[call.target])

\* C8: the mapper built for omit(F) assigns exactly the declared, non-ignored
\* keys that are not in F, and the object Mapper.map returns has exactly
\* these keys.
C8_OmitExact ==
  (BuiltCall /\ PureOmit(call.options)) =>
    LET expected == NonIgnoredKeys(metadata[call.target])
                      \ SetOf(call.options.val.omit.val)
    IN /\ AssignedKeys(call.ret.val) = expected
       /\ MappedCall => DOMAIN call.result.value.props = expected

\* C8 witness: omit(["b","a"]) on UserDto leaves c, and not the ignored d.
C8_Witness ==
  /\ call.op = "createMapper"
  /\ ~call.hit
  /\ call.options = MapOptions(Absent, Present(<<KeyB, KeyA>>), Absent, Absent)
  /\ NonIgnoredKeys(metadata[call.target]) = {KeyA, KeyB, KeyC}
  /\ AssignedKeys(call.ret.val) = {KeyC}

\* C9: for a group name of the class's FIELD_GROUPS, the mapper built for
\* group(name) assigns exactly the non-ignored keys of that group, and the
\* object Mapper.map returns has exactly these keys.
C9_GroupExact ==
  (BuiltCall /\ PureGroup(call.options)
     /\ call.options.val.group.val \in DOMAIN ExistingGroups(metadata[call.target])) =>
    LET expected == NonIgnoredKeys(metadata[call.target])
                      \cap ExistingGroups(metadata[call.target])
                             [call.options.val.group.val]
    IN /\ AssignedKeys(call.ret.val) = expected
       /\ MappedCall => DOMAIN call.result.value.props = expected

\* C10: for a group name that is not in the class's FIELD_GROUPS, the mapper
\* built for group(name) assigns no key.
C10_UnknownGroupEmpty ==
  (BuiltCall /\ PureGroup(call.options)
     /\ call.options.val.group.val \notin DOMAIN ExistingGroups(metadata[call.target])) =>
    AssignedKeys(call.ret.val) = {}

\* Options that supply more than one of pick, omit and group.
MultiMode(o) ==
  /\ o.def
  /\ \/ o.val.pick.def /\ o.val.omit.def
     \/ o.val.pick.def /\ o.val.group.def
     \/ o.val.omit.def /\ o.val.group.def

\* The keys the mode that wins by group > pick > omit > none selects from
\* the declarations md, on its own.
ModeFields(md, o) ==
  IF ~o.def THEN NonIgnoredKeys(md)
  ELSE IF o.val.group.def
       THEN IF o.val.group.val \in DOMAIN ExistingGroups(md)
            THEN NonIgnoredKeys(md) \cap ExistingGroups(md)[o.val.group.val]
            ELSE {}
  ELSE IF o.val.pick.def THEN NonIgnoredKeys(md) \cap SetOf(o.val.pick.val)
  ELSE IF o.val.omit.def THEN NonIgnoredKeys(md) \ SetOf(o.val.omit.val)
  ELSE NonIgnoredKeys(md)

\* C11: mode precedence.  For options that supply more than one of group,
\* pick and omit, the mapper createMapper returns assigns the fields of the
\* one mode that wins by group > pick > omit, and of that mode alone.
C11_ModePrecedence ==
  (CompiledCall /\ MultiMode(call.options)) =>
    AssignedKeys(call.ret.val) = ModeFields(metadata[call.target], call.options)

\* C12: no mapper createMapper returns, whatever the options, assigns the
\* key of a declaration marked ignore.
C12_IgnoredNeverAssigned ==
  CompiledCall =>
    \A d \in Declarations(metadata[call.target]) :
      d.ignore => d.targetKey \notin AssignedKeys(call.ret.val)

\* C12 witness: group("g") is compiled for a class whose group g holds the
\* ignored d; the mapper assigns a and b only.
C12_Witness ==
  /\ BuiltCall
  /\ call.options = MapOptions(Absent, Absent, Present(GroupG), Absent)
  /\ GroupG \in DOMAIN ExistingGroups(metadata[call.target])
  /\ KeyD \in ExistingGroups(metadata[call.target])[GroupG]
  /\ \E d \in Declarations(metadata[call.target]) :
       d.targetKey = KeyD /\ d.ignore
  /\ AssignedKeys(call.ret.val) = {KeyA, KeyB}

\* The mappers in the cache.
CachedMappers ==
  UNION {{compiledMappers[t][k] : k \in DOMAIN compiledMappers[t]} :
           t \in DOMAIN compiledMappers}

\* C13: null propagation.  Mapper.map of a null or undefined source returns
\* null, and every cached mapper invoked on null or undefined returns null:
\* neither throws.
C13_NullPropagation ==
  /\ (call.op = "map" /\ IsNullish(call.source)) => call.result = Return(Null)
  /\ \A mapper \in CachedMappers : \A source \in {Null, Undefined} :
       InvokeMapper(pathCache, mapper, source,
                    MapContext(globalContext, Absent)).completion = Return(Null)

\* C13 witness: Mapper.map(undefined, T) returned null while a mapper with a
\* transform that reads src.p.u is cached.
C13_Witness ==
  /\ call.op = "map"
  /\ call.source = Undefined
  /\ call.result = Return(Null)
  /\ \E mapper \in CachedMappers :
       \E i \in 1..Len(mapper.transformMappings) :
         mapper.transformMappings[i].source = Fn("avatarOf")

(***************************************************************************)
(* Arrays and transform errors (SpecArray)                                 *)
(***************************************************************************)

\* The last call was Mapper.mapArray on an array.
ArrayCall == call.op = "mapArray" /\ call.source.t = "array"

\* C14: when Mapper.mapArray returns for an array xs, the result has the
\* length of xs; index i holds null where xs[i] is null or undefined, and
\* what the mapper returns for xs[i] otherwise.
C14_ArrayLengthOrder ==
  (ArrayCall /\ call.result.kind = "return") =>
    LET xs == call.source.items
        ys == call.result.value.items
        context == MapContext(globalContext, call.options)
    IN /\ Len(ys) = Len(xs)
       /\ \A i \in 1..Len(xs) :
            ys[i] = IF IsNullish(xs[i]) THEN Null
                    ELSE InvokeMapper(pathCache, call.ret.val, xs[i],
                                      context).completion.value

\* C14 witness: [full, null, bare] maps to three elements, the second null
\* and the first an object.
C14_Witness ==
  /\ ArrayCall
  /\ call.source = Arr(<<FullSource, Null, BareSource>>)
  /\ call.result.kind = "return"
  /\ Len(call.result.value.items) = 3
  /\ call.result.value.items[1].t = "object"
  /\ call.result.value.items[2] = Null

\* C15: a Mapper.mapArray call on something that is no array returns the
\* empty array and leaves the registry, the mapper cache and the path cache
\* as they were: nothing is compiled.
C15_NonArrayEmpty ==
  [][(call'.op = "mapArray" /\ NotAnArray(call'.source)) =>
       /\ call'.result = Return(Arr(<<>>))
       /\ UNCHANGED <<registry, compiledMappers, built, pathCache, consulted>>]_vars

\* C15 witness: mapArray of a plain object returned [] and nothing was
\* compiled yet.
C15_Witness ==
  /\ call.op = "mapArray"
  /\ call.source = FullSource
  /\ call.result = Return(Arr(<<>>))
  /\ DOMAIN compiledMappers = {}
  /\ DOMAIN registry = {}

\* The sources the last map or mapArray call invoked its mapper on.
InvokedSources ==
  IF call.op = "map" THEN {call.source}
  ELSE {call.source.items[i] : i \in 1..Len(call.source.items)} \ {Null, Undefined}

\* What the transforms of mapper throw for source.
ThrownBy(mapper, source, context) ==
  {c \in {ApplyTransform(mapper.transformMappings[i].source.name, source,
                         context) : i \in 1..Len(mapper.transformMappings)} :
     c.kind = "throw"}

\* C17: when a transform throws during Mapper.map or Mapper.mapArray, the
\* call completes by throwing the very value the transform threw, a call
\* throws only what a transform threw, and the mapper stays in the cache
\* under its key and still maps a source its transforms accept.
C17_TransformErrorPropagates ==
  (call.op \in {"map", "mapArray"} /\ call.ret.def) =>
    LET mapper == call.ret.val
        context == MapContext(globalContext, call.options)
        thrown == UNION {ThrownBy(mapper, source, context) :
                           source \in InvokedSources}
    IN /\ thrown # {} => call.result \in thrown
       /\ call.result.kind = "throw" =>
            /\ call.result \in thrown
            /\ getCompiledMapper(compiledMappers, call.target,
                                 getOptionsKey(call.options)) = Present(mapper)
            /\ InvokeMapper(pathCache, mapper, FullSource,
                            context).completion.kind = "return"

\* C17 witness: mapArray([full, null, bare]) threw the TypeError of the
\* transform that reads src.p.u, on its third element.
C17_Witness ==
  /\ ArrayCall
  /\ call.source = Arr(<<FullSource, Null, BareSource>>)
  /\ call.result = Throw(Str(<<"T","y","p","e","E","r","r","o","r">>))
  /\ call.ret.val \in CachedMappers

(***************************************************************************)
(* Path resolution (SpecPath)                                              *)
(***************************************************************************)

\* A path one of whose segments is __proto__, constructor or prototype.
HasBlockedSegment(path) ==
  \E i \in 1..Len(StrSplit(path, ".")) : StrSplit(path, ".")[i] \in BLOCKED_KEYS

\* C16: getNestedValue on a path with a blocked segment returns undefined
\* (it does not throw) and reads no property named by a blocked segment,
\* whatever the source.
C16_BlockedSegments ==
  (call.op = "getNestedValue" /\ HasBlockedSegment(call.path)) =>
    /\ call.result = Return(Undefined)
    /\ \A i \in 1..Len(call.reads) : call.reads[i] \notin BLOCKED_KEYS

\* C16 witness: "a.constructor" resolved against a source whose a has an
\* own property "constructor": a was read, the result is undefined.
C16_Witness ==
  /\ call.op = "getNestedValue"
  /\ call.source = PollutedSource
  /\ call.path = KeyA \o <<".">> \o KeyConstructor
  /\ call.reads = <<KeyA>>
  /\ call.result = Return(Undefined)

(***************************************************************************)
(* The global context (SpecContext)                                        *)
(***************************************************************************)

\* The values the transform (src, ctx) => ctx?.extras returned in the last
\* map or mapArray call: the extras of the context each invocation got.
ExtrasSeen ==
  LET results == IF call.op = "map" THEN {call.result.value}
                 ELSE {call.result.value.items[i] :
                         i \in 1..Len(call.result.value.items)} \ {Null}
      mapper == call.ret.val
  IN {r.props[mapper.transformMappings[i].target] :
        <<r, i>> \in {ri \in results \X (1..Len(mapper.transformMappings)) :
                       mapper.transformMappings[ri[2]].source = Fn("locale")}}

\* C18: once the global context has extras, every transform invoked through
\* Mapper.map or Mapper.mapArray in a call whose options supply no extras
\* receives a context with these extras.
C18_GlobalExtrasReachTransforms ==
  (/\ call.op \in {"map", "mapArray"}
   /\ call.ret.def
   /\ call.result.kind = "return"
   /\ ~(call.options.def /\ call.options.val.extras.def)
   /\ globalContext.extras # Undefined) =>
    \A extras \in ExtrasSeen : extras = globalContext.extras

(***************************************************************************)
(* MapperService.mapAndValidate (SpecService)                              *)
(***************************************************************************)

\* C19: with enableValidation and class-validator installed, a
\* mapAndValidate call whose mapped result has validation errors settles
\* only after validate(result) did, and rejects with these errors, whenever
\* after construction it was made.
C19_ValidatesWhenEnabled ==
  (/\ call.op = "mapAndValidate"
   /\ call.mapped.def
   /\ service.enableValidation
   /\ service.installed) =>
    LET errors == ValidationErrors(call.mapped.val)
    IN /\ call.validated
       /\ Len(errors) > 0 => call.outcome = Rejected(errors)

(***************************************************************************)
(* Cache coherence (SpecProjection)                                        *)
(***************************************************************************)

\* The keys getPropertiesToMap selects from the declarations md for o.
ResolvedKeys(md, o) ==
  LET properties == getPropertiesToMap(ExistingMappings(md),
                                       ExistingGroups(md), o)
  IN {properties[i].targetKey : i \in 1..Len(properties)}

\* C20: cache coherence.  Whatever was compiled before, the mapper
\* createMapper returns for an option assigns exactly the keys
\* getPropertiesToMap selects for that very option.
C20_CacheCoherence ==
  CompiledCall =>
    AssignedKeys(call.ret.val) = ResolvedKeys(metadata[call.target], call.options)

(***************************************************************************)
(* The caller's options object (Spec)                                      *)
(***************************************************************************)

\* C21: createMapper, map, mapArray and getCompiledMapper leave the
\* caller's options as they were: after the call its pick and omit lists
\* hold the same elements in the same order as before.
C21_OptionsUnchanged ==
  call.op \in {"createMapper", "map", "mapArray", "getCompiledMapper"} =>
    call.after = call.options

(***************************************************************************)
(* Short-circuit on non-containers (SpecPath)                              *)
(***************************************************************************)

\* The value the i-th read of a getNestedValue call indexed: obj after the
\* reads before it.
RECURSIVE IndexedAt(_, _, _)
IndexedAt(obj, reads, i) ==
  IF i = 1 THEN obj
  ELSE GetProp(IndexedAt(obj, reads, i - 1), reads[i - 1])

\* The value a left-to-right walk of segments from obj stands on after k
\* segments; a value that is no container has no successor.
RECURSIVE ValueAfter(_, _, _)
ValueAfter(obj, segments, k) ==
  IF k = 0 THEN obj
  ELSE LET before == ValueAfter(obj, segments, k - 1)
       IN IF IsNullish(before) \/ ~IsObjectType(before) THEN Undefined
          ELSE GetProp(before, segments[k])

\* The walk of path from obj indexes a value that is null, undefined or
\* no object, at its first or at a later segment.
IndexesNonContainer(obj, path) ==
  LET segments == StrSplit(path, ".")
  IN \E k \in 0..(Len(segments) - 1) :
       LET v == ValueAfter(obj, segments, k)
       IN IsNullish(v) \/ ~IsObjectType(v)

\* C22: dotted-path resolution short-circuits on non-containers.  For
\* every path, of one segment or of several, and every starting value:
\* when the value indexed at some step is null, undefined or not an
\* object, getNestedValue returns undefined, and it reads no property of
\* such a value.
C22_ShortCircuit ==
  call.op = "getNestedValue" =>
    /\ IndexesNonContainer(call.source, call.path) =>
         call.result = Return(Undefined)
    /\ \A i \in 1..Len(call.reads) :
         LET v == IndexedAt(call.source, call.reads, i)
         IN ~IsNullish(v) /\ IsObjectType(v)

\* C22 for the paths of several segments only.
C22_ShortCircuitDotted ==
  (call.op = "getNestedValue" /\ StrIncludes(call.path, ".")) =>
    /\ IndexesNonContainer(call.source, call.path) =>
         call.result = Return(Undefined)
    /\ \A i \in 1..Len(call.reads) :
         LET v == IndexedAt(call.source, call.reads, i)
         IN ~IsNullish(v) /\ IsObjectType(v)

(***************************************************************************)
(* The decorators of one class (SpecDecorators): UserDto starts with no    *)
(* metadata, its decorators run one after the other, and it is compiled    *)
(* at any moment.                                                          *)
(***************************************************************************)

\* @MapFrom("p.u"), @MapFrom((src) => src.age >= 18), @AutoMap(),
\* @FieldGroup("g"), @FieldGroup("g", "h") and @Ignore() on a;
\* @AutoMap() and @FieldGroup("g") on b.
MemberDecorators ==
  { [decorator |-> "MapFrom", key |-> KeyA, arg |-> Str(PathAvatar)],
    [decorator |-> "MapFrom", key |-> KeyA, arg |-> Fn("isAdult")],
    [decorator |-> "AutoMap", key |-> KeyA, arg |-> Undefined],
    [decorator |-> "FieldGroup", key |-> KeyA, arg |-> Str(GroupG)],
    [decorator |-> "FieldGroup", key |-> KeyA,
     arg |-> Arr(<<Str(GroupG), Str(GroupH)>>)],
    [decorator |-> "Ignore", key |-> KeyA, arg |-> Undefined],
    [decorator |-> "AutoMap", key |-> KeyB, arg |-> Undefined],
    [decorator |-> "FieldGroup", key |-> KeyB, arg |-> Str(GroupG)] }

InitDecorators == InitWith(NoMetadata)

NextDecorators ==
  \/ \E d \in MemberDecorators : DeclareMember("UserDto", d)
  \/ CreateMapper("UserDto", Absent)

SpecDecorators == InitDecorators /\ [][NextDecorators]_vars

\* The decorators that ran on the property key of targetType, in order.
AppliedTo(targetType, key) ==
  LET ran == SelectSeq(applied,
                       LAMBDA r : r.target = targetType /\ r.dcall.key = key)
  IN [i \in 1..Len(ran) |-> ran[i].dcall]

\* The group names a decorator application gives.
GroupsGiven(dcall) ==
  IF dcall.decorator # "FieldGroup" THEN {}
  ELSE IF dcall.arg.t = "array"
       THEN {dcall.arg.items[i].v : i \in 1..Len(dcall.arg.items)}
  ELSE {dcall.arg.v}

\* The source a MapFrom or AutoMap application names.
LocatorGiven(dcall) ==
  IF dcall.decorator = "AutoMap" THEN Str(dcall.key) ELSE dcall.arg

\* The config of key in the PROPERTY_MAPPINGS metadata of targetType.
ConfigOf(targetType, key) ==
  ExistingConfig(ExistingMappings(metadata[targetType]), key)

\* The keys some decorator ran on.
DecoratedKeys(targetType) ==
  {applied[i].dcall.key :
     i \in {j \in 1..Len(applied) : applied[j].target = targetType}}

\* The locator and the groups of key are as re-declaration has them: the
\* locator and isTransform of the last MapFrom or AutoMap, the union of
\* the groups of every FieldGroup.
LocatorAndGroupsAsDeclared(targetType, key) ==
  LET ran == AppliedTo(targetType, key)
      locators == SelectSeq(ran, LAMBDA d : d.decorator \in {"MapFrom", "AutoMap"})
      config == ConfigOf(targetType, key)
  IN /\ MapHas(ExistingMappings(metadata[targetType]), key)
     /\ locators # <<>> =>
          LET last == locators[Len(locators)]
          IN /\ config.source = LocatorGiven(last)
             /\ config.isTransform = (LocatorGiven(last).t = "function")
     /\ SetOf(config.groups) = UNION {GroupsGiven(ran[i]) : i \in 1..Len(ran)}

\* The ignore flag of key is that of the last decorator that ran on it.
IgnoreAsLastDeclared(targetType, key) ==
  LET ran == AppliedTo(targetType, key)
  IN ConfigOf(targetType, key).ignore = (ran[Len(ran)].decorator = "Ignore")

\* C23: re-declaration.  When several decorators ran on the same property,
\* in any order, its config has the locator and isTransform of the last
\* MapFrom or AutoMap, the ignore flag of the last decorator (the last
\* declaration wins), and as groups the union of the groups of every
\* FieldGroup.
C23_Redeclaration ==
  \A key \in DecoratedKeys("UserDto") :
    /\ LocatorAndGroupsAsDeclared("UserDto", key)
    /\ IgnoreAsLastDeclared("UserDto", key)

\* C23 without the ignore flag: locator, isTransform and groups.
C23_LocatorAndGroups ==
  \A key \in DecoratedKeys("UserDto") :
    LocatorAndGroupsAsDeclared("UserDto", key)

(***************************************************************************)
(* groupIndex and the groups of the declarations (SpecDecorators)          *)
(***************************************************************************)

\* The Map fieldGroups and the groups fields of the configs say the same:
\* key is in fieldGroups[group] exactly when group is in the groups of the
\* config of key.
GroupIndexConsistent(propertyConfigs, fieldGroups) ==
  LET keys == {propertyConfigs[i].targetKey : i \in 1..Len(propertyConfigs)}
                \cup UNION {fieldGroups[g] : g \in DOMAIN fieldGroups}
      groups == DOMAIN fieldGroups
                  \cup UNION {SetOf(propertyConfigs[i].groups) :
                               i \in 1..Len(propertyConfigs)}
  IN \A g \in groups, k \in keys :
       (g \in DOMAIN fieldGroups /\ k \in fieldGroups[g])
         <=> (/\ MapHas(propertyConfigs, k)
              /\ g \in SetOf(ExistingConfig(propertyConfigs, k).groups))

\* C24: groupIndex consistency.  After any sequence of decorator
\* applications on a class, in its metadata and in its registry entry, a
\* key k is in fieldGroups[g] if and only if g is in the groups of the
\* config of k.
C24_GroupIndexConsistent ==
  /\ GroupIndexConsistent(ExistingMappings(metadata["UserDto"]),
                          ExistingGroups(metadata["UserDto"]))
  /\ "UserDto" \in DOMAIN registry =>
       GroupIndexConsistent(
         EntryPropertyConfigs(metadata["UserDto"], registry["UserDto"]),
         EntryFieldGroups(metadata["UserDto"], registry["UserDto"]))

\* C24 for the metadata alone, as the decorators keep them.
C24_MetadataConsistent ==
  GroupIndexConsistent(ExistingMappings(metadata["UserDto"]),
                       ExistingGroups(metadata["UserDto"]))

\* C24 for the registry entry at the moment getEntry made it.
C24_EntryWhenCreated ==
  (call.op = "createMapper" /\ ~call.hit) =>
    GroupIndexConsistent(
      EntryPropertyConfigs(metadata["UserDto"], registry["UserDto"]),
      EntryFieldGroups(metadata["UserDto"], registry["UserDto"]))

(***************************************************************************)
(* Declaration order (SpecProjection)                                      *)
(***************************************************************************)

\* xs is a subsequence of ys: ys with some elements left out.
RECURSIVE IsSubsequence(_, _)
IsSubsequence(xs, ys) ==
  IF xs = <<>> THEN TRUE
  ELSE IF ys = <<>> THEN FALSE
  ELSE IF Head(xs) = Head(ys) THEN IsSubsequence(Tail(xs), Tail(ys))
  ELSE IsSubsequence(xs, Tail(ys))

\* The target keys of a list of configs or of mappings, in its order.
TargetKeys(configs) == [i \in 1..Len(configs) |-> configs[i].targetKey]
MappingTargets(mappings) == [i \in 1..Len(mappings) |-> mappings[i].target]

\* C25: the list getPropertiesToMap returns is in declaration order.  For
\* pick, omit, group and no option, in whatever order the caller lists the
\* fields, the list is a subsequence of the declarations in their order,
\* and so are the path mappings and the transform mappings of the mapper
\* built from it.
C25_DeclarationOrder ==
  BuiltCall =>
    LET md == metadata[call.target]
        declared == ExistingMappings(md)
        properties == getPropertiesToMap(declared, ExistingGroups(md),
                                         call.after)
    IN /\ IsSubsequence(properties, declared)
       /\ AssignedKeys(call.ret.val) = SetOf(TargetKeys(properties))
       /\ IsSubsequence(MappingTargets(call.ret.val.pathMappings),
                        TargetKeys(declared))
       /\ IsSubsequence(MappingTargets(call.ret.val.transformMappings),
                        TargetKeys(declared))

\* C25 witness: pick(["a", "b"]) compiled on ReorderedDto, which declares b
\* before a: the mapper assigns b, then a.
C25_Witness ==
  /\ BuiltCall
  /\ call.op = "createMapper"
  /\ metadata[call.target] = ReorderedDtoMetadata
  /\ call.options = MapOptions(Present(<<KeyA, KeyB>>), Absent, Absent, Absent)
  /\ MappingTargets(call.ret.val.pathMappings) = <<KeyB, KeyA>>

(***************************************************************************)
(* Write-once cache entries (Spec)                                         *)
(***************************************************************************)

\* Every mapper stored in compiledMappers is stored, under its class and
\* key, in the next state too.
StoredMappersKept ==
  \A t \in DOMAIN compiledMappers : \A k \in DOMAIN compiledMappers[t] :
    /\ t \in DOMAIN compiledMappers'
    /\ k \in DOMAIN compiledMappers'[t]
    /\ compiledMappers'[t][k] = compiledMappers[t][k]

\* C26: compiled-mapper entries are write-once between clears.  No
\* createMapper, map, mapArray or getCompiledMapper call, and no decorator,
\* replaces or removes a function stored under (T, key); clearCache() alone
\* may.
C26_WriteOnce ==
  [][call'.op # "clearCache" => StoredMappersKept]_vars

\* C26 witness: a second key of UserDto was compiled and stored, and the
\* mapper stored first is still there, the first function built for its key.
C26_Witness ==
  /\ call.op = "createMapper"
  /\ ~call.hit
  /\ call.target = "UserDto"
  /\ \E k \in DOMAIN compiledMappers["UserDto"] :
       /\ k # call.ret.val.id.key
       /\ compiledMappers["UserDto"][k].id.n = 1

(***************************************************************************)
(* A metadata provider that raises (SpecProvider): reading the metadata of *)
(* UserDto raises until the class becomes readable.                        *)
(***************************************************************************)

\* What Reflect.getMetadata raises.
ProviderError == Str(<<"T","y","p","e","E","r","r","o","r">>)

InitProvider == InitWith(RaisingMetadata(ProviderError))

\* The metadata of targetType can be read from now on.
MetadataReadable(targetType, md) ==
  /\ MetadataRaises(metadata[targetType])
  /\ metadata' = [metadata EXCEPT ![targetType] = md]
  /\ call' = CallRecord("readable", targetType, Absent, Absent, FALSE, Absent,
                        Undefined, NoResult)
  /\ UNCHANGED service
  /\ UNCHANGED frames
  /\ UNCHANGED applied
  /\ UNCHANGED <<registry, compiledMappers, pathCache, globalContext, built,
                 decorated, consulted, compiledSince, redefined>>

NextProvider ==
  \/ \E t \in Shapes : \E o \in CompileOptions(t) : CreateMapper(t, o)
  \/ \E t \in Shapes : \E s \in MapSources, o \in MapOptionSet(t) : Map(s, t, o)
  \/ \E o \in ArrayOptions : MapArray(Arr(<<FullSource, Null>>), "UserDto", o)
  \/ MetadataReadable("UserDto", UserDtoMetadata)

SpecProvider == InitProvider /\ [][NextProvider]_vars

\* The call made in this step reads the metadata of its class for the first
\* time, and the read raises.
FirstResolutionRaises ==
  /\ call'.op \in {"createMapper", "map", "mapArray"}
  /\ call'.op = "map" => ~IsNullish(call'.source)
  /\ call'.op = "mapArray" => ~NotAnArray(call'.source)
  /\ call'.target \notin DOMAIN registry
  /\ MetadataRaises(metadata[call'.target])

\* C27: a provider failure leaves no trace.  When reading the metadata of
\* a class raises during its first resolution, the caller gets that very
\* error, no registry entry and no compiled mapper is stored for the class,
\* nothing else is written, and the metadata was read once more: the next
\* compile of the class reads it again.
C27_ProviderFailure ==
  [][FirstResolutionRaises =>
       /\ call'.result = Throw(metadata[call'.target].raises)
       /\ UNCHANGED <<registry, compiledMappers, built, pathCache>>
       /\ call'.target \notin DOMAIN registry'
       /\ call'.target \notin DOMAIN compiledMappers'
       /\ consulted'[call'.target] = consulted[call'.target] + 1]_vars

\* C27 witness: a second createMapper(UserDto) raised the provider's error
\* after the first one had: the metadata was read twice and nothing is
\* stored.
C27_Witness ==
  /\ call.op = "createMapper"
  /\ call.target = "UserDto"
  /\ call.result = Throw(ProviderError)
  /\ consulted["UserDto"] = 2
  /\ DOMAIN registry = {}
  /\ DOMAIN compiledMappers = {}

\* After a failure and once the metadata is readable, createMapper(UserDto)
\* compiled: the metadata was read again and the mapper is built from it.
C27_Recovered ==
  /\ BuiltCall
  /\ call.target = "UserDto"
  /\ consulted["UserDto"] = 2
  /\ AssignedKeys(call.ret.val) = {KeyA, KeyB, KeyC}

(***************************************************************************)
(* createMapper step by step (SpecRace): two callers are each in one       *)
(* createMapper call, and the lookup, the build and the store of the two   *)
(* calls interleave.                                                       *)
(***************************************************************************)

\* createMapper as far as the cache lookup: getEntry, getOptionsKey,
\* getCompiledMapper, and the return when a mapper is cached.
LookupStep(c, targetType, options) ==
  LET md == metadata[targetType]
      optionsKey == getOptionsKey(options)
      cached == getCompiledMapper(compiledMappers, targetType, optionsKey)
      frame == [target |-> targetType, given |-> options,
                options |-> OptionsAfterKey(options), key |-> optionsKey]
  IN /\ frames[c].pc = "idle"
     /\ ~MetadataRaises(md)
     /\ registry' = RegistryAfterGetEntry(registry, md, targetType)
     /\ Bookkeeping(targetType, GetEntryConsults(registry, targetType))
     /\ frames' = [frames EXCEPT ![c] =
                     IF cached.def
                     THEN [pc |-> "returned", hit |-> TRUE,
                           mapper |-> cached.val, frame |-> frame]
                     ELSE [pc |-> "missed", hit |-> FALSE, frame |-> frame]]
     /\ call' = [op |-> "lookup", caller |-> c]
     /\ UNCHANGED applied
     /\ UNCHANGED service
     /\ UNCHANGED <<metadata, compiledMappers, pathCache, globalContext,
                    built, decorated, redefined>>

\* createMapper after a miss: getPropertiesToMap and buildMapper.
BuildStep(c) ==
  /\ frames[c].pc = "missed"
  /\ LET frame == frames[c].frame
         md == metadata[frame.target]
         entry == registry[frame.target]
         propertiesToMap ==
           getPropertiesToMap(EntryPropertyConfigs(md, entry),
                              EntryFieldGroups(md, entry), frame.options)
         mapper == buildMapper(NewFunctionId(built, frame.target, frame.key),
                               frame.target, propertiesToMap)
     IN /\ built' = BuiltAfter(built, frame.target, frame.key)
        /\ frames' = [frames EXCEPT ![c] =
                        [pc |-> "built", hit |-> FALSE, mapper |-> mapper,
                         frame |-> frame]]
  /\ call' = [op |-> "build", caller |-> c]
  /\ UNCHANGED applied
  /\ UNCHANGED service
  /\ UNCHANGED <<metadata, registry, compiledMappers, pathCache,
                 globalContext, decorated, consulted, compiledSince,
                 redefined>>

\* createMapper to its end: setCompiledMapper and the return.
StoreStep(c) ==
  /\ frames[c].pc = "built"
  /\ compiledMappers' =
       setCompiledMapper(compiledMappers, frames[c].frame.target,
                         frames[c].frame.key, frames[c].mapper)
  /\ frames' = [frames EXCEPT ![c].pc = "returned"]
  /\ call' = [op |-> "store", caller |-> c]
  /\ UNCHANGED applied
  /\ UNCHANGED service
  /\ UNCHANGED <<metadata, registry, pathCache, globalContext, built,
                 decorated, consulted, compiledSince, redefined>>

\* The options the two callers compile with: two permutations of one pick
\* list, and options that getOptionsKey gives the key of another.
RaceOptions ==
  { MapOptions(Present(<<KeyA>>), Absent, Absent, Absent),
    MapOptions(Present(<<KeyA>>), Absent, Present(GroupG), Absent),
    MapOptions(Present(<<KeyA, KeyB>>), Absent, Absent, Absent),
    MapOptions(Present(<<KeyB, KeyA>>), Absent, Absent, Absent),
    MapOptions(Present(<<KeyAB>>), Absent, Absent, Absent),
    MapOptions(Absent, Present(<<KeyA>>), Absent, Absent) }

NextRace ==
  \/ \E c \in Callers, o \in RaceOptions : LookupStep(c, "UserDto", o)
  \/ \E c \in Callers : BuildStep(c)
  \/ \E c \in Callers : StoreStep(c)
  \/ CreateMapper("UserDto", Absent)

SpecRace == InitProjection /\ [][NextRace]_vars

\* Both callers compiled the same (class, key), both missed the cache, and
\* both have returned.
RacedOnOneSlot ==
  /\ \A c \in Callers : frames[c].pc = "returned" /\ ~frames[c].hit
  /\ frames[1].frame.target = frames[2].frame.target
  /\ frames[1].frame.key = frames[2].frame.key

\* What a race on the slot (targetType, key) leaves: one of the two
\* mappers in the slot, the two mappers with the same mappings, every
\* other key of the cache with the one function ever built for it, and
\* the registry with the entry of the class alone.
RaceBenign(targetType, key) ==
  /\ compiledMappers[targetType][key] \in {frames[c].mapper : c \in Callers}
  /\ AssignedMappings(frames[1].mapper) = AssignedMappings(frames[2].mapper)
  /\ DOMAIN compiledMappers = {targetType}
  /\ \A k \in DOMAIN compiledMappers[targetType] \ {key} :
       /\ BuiltCount(built, targetType, k) = 1
       /\ compiledMappers[targetType][k].id =
            [target |-> targetType, key |-> k, n |-> 1]
  /\ DOMAIN registry = {targetType}
  /\ registry[targetType] =
       createEntryFromMetadata(metadata[targetType], targetType)

\* C28: the compile race is benign.  When two callers compile the same
\* (T, key) and both miss the cache before either stores, the cache ends
\* with exactly one mapper under (T, key), the two returned mappers assign
\* the same fields from the same locators, and no other cache key and no
\* registry entry is altered.
C28_BenignRace ==
  RacedOnOneSlot => RaceBenign(frames[1].frame.target, frames[1].frame.key)

\* C28 for two callers whose options hold the same fields, in any order.
C28_BenignRaceSameFields ==
  (RacedOnOneSlot /\ frames[1].frame.options = frames[2].frame.options) =>
    RaceBenign(frames[1].frame.target, frames[1].frame.key)

\* Two callers raced with pick(["a","b"]) and pick(["b","a"]): two
\* functions were built for the key and the one stored last is cached.
C28_RaceReached ==
  /\ RacedOnOneSlot
  /\ frames[1].frame.given # frames[2].frame.given
  /\ frames[1].frame.options = frames[2].frame.options
  /\ BuiltCount(built, "UserDto", frames[1].frame.key) = 2
  /\ frames[1].mapper # frames[2].mapper
  /\ <<"d","e","f","a","u","l","t">> \in DOMAIN compiledMappers["UserDto"]

(***************************************************************************)
(* decorators: createMapping (SpecMapping)                                 *)
(***************************************************************************)

\* The loop of getNestedValueTyped over segments[i..], from current.
RECURSIVE WalkTyped(_, _, _)
WalkTyped(current, segments, i) ==
  IF i > Len(segments) THEN current
  ELSE IF IsNullish(current) \/ ~IsObjectType(current) THEN Undefined
  ELSE WalkTyped(GetProp(current, segments[i]), segments, i + 1)

\* getNestedValueTyped(obj, path)
getNestedValueTyped(obj, path) ==
  IF IsNullish(obj) THEN Undefined
  ELSE WalkTyped(obj, StrSplit(path, "."), 1)

\* createMapping({ [targetKey]: path })(source): the object it returns.
createMapping(targetKey, path, source) ==
  Obj([k \in {targetKey} |-> getNestedValueTyped(source, path)])

\* createMapping({ [targetKey]: path })(source)
ApplyMapping(targetKey, path, source) ==
  /\ call' = [op |-> "createMapping", source |-> source, path |-> path,
              target |-> targetKey,
              result |-> Return(createMapping(targetKey, path, source))]
  /\ UNCHANGED service
  /\ UNCHANGED frames
  /\ UNCHANGED applied
  /\ UNCHANGED <<metadata, registry, compiledMappers, pathCache,
                 globalContext, built, decorated, consulted, compiledSince,
                 redefined>>

\* The paths getNestedValue was called with before.
CachedPaths ==
  { PathAvatar, KeyA \o <<".">> \o KeyConstructor, KeyA \o <<".">> \o KeyLength }

NextMapping ==
  \/ \E path \in CachedPaths : GetNestedValue(FullSource, path)
  \/ \E obj \in PathSources, path \in Paths : ApplyMapping(KeyB, path, obj)

SpecMapping == Init /\ [][NextMapping]_vars

\* C29: createMapping resolves a string path exactly as getNestedValue
\* does.  For every source and every path the value it assigns is
\* getNestedValue(source, path), and so undefined for a path with a
\* __proto__, constructor or prototype segment.
C29_SameAsGetNestedValue ==
  call.op = "createMapping" =>
    LET assigned == call.result.value.props[call.target]
    IN /\ assigned = getNestedValue(pathCache, call.source, call.path)
       /\ HasBlockedSegment(call.path) => assigned = Undefined

\* C29 for the paths without a blocked segment and the sources that are
\* objects, null or undefined.
C29_SameOnPlainPaths ==
  (/\ call.op = "createMapping"
   /\ ~HasBlockedSegment(call.path)
   /\ IsNullish(call.source) \/ IsObjectType(call.source)) =>
    call.result.value.props[call.target] =
      getNestedValue(pathCache, call.source, call.path)

\* C29 for the paths with a blocked segment alone: createMapping assigns
\* undefined.
C29_BlockedUndefined ==
  (call.op = "createMapping" /\ HasBlockedSegment(call.path)) =>
    call.result.value.props[call.target] = Undefined

(***************************************************************************)
(* The path cache is transparent (SpecPath)                                *)
(***************************************************************************)

\* new Map(): the path cache before any call.
EmptyPathCache == [p \in {} |-> <<>>]

\* C30: path-segment caching is transparent.  getNestedValue(obj, path)
\* returns what it returns with an empty cache, whatever calls were made
\* before it, and the segments cached for a path are path.split(".") at
\* all times: a cached entry is never altered.
C30_CacheTransparent ==
  /\ \A p \in DOMAIN pathCache : pathCache[p] = StrSplit(p, ".")
  /\ call.op = "getNestedValue" =>
       call.result = Return(getNestedValue(EmptyPathCache, call.source,
                                           call.path))

\* C30 witness: "p.u" was resolved from segments that an earlier call had
\* cached, with other paths cached as well, and gave the value at p.u.
C30_Witness ==
  /\ call.op = "getNestedValue"
  /\ call.cached
  /\ call.path = PathAvatar
  /\ call.source = FullSource
  /\ call.result = Return(Str(<<"y">>))
  /\ Cardinality(DOMAIN pathCache) > 1

====
